---- MODULE Spec2Model ----
(***************************************************************************)
(* Creator Data Vault (registryaccord-cdv-go): the record write path       *)
(* (internal/server/mux.go), the two Store implementations                 *)
(* (internal/storage/postgres.go holds both the relational and the         *)
(* in-memory store), cursor pagination and the media two-phase commit.     *)
(*                                                                         *)
(* Time is a logical clock `now`; every duration of the code is expressed  *)
(* in ticks of that clock.                                                 *)
(***************************************************************************)
EXTENDS Integers, Sequences, FiniteSets, TLC

\* ------------------------------------------------------------------------
\* Bounds of the model
\* ------------------------------------------------------------------------
MaxNow == 3
MaxEntropy == 2
MaxPages == 3
\* CDV_MAX_MEDIA_SIZE, in bytes
MaxMediaSize == 2

\* publish calls made on the publisher alone, and minutes on its clock
MaxCalls == 2
\* finalize requests the uploading client sends for its asset
MaxFinalizes == 2
MaxMinute == 6

\* ------------------------------------------------------------------------
\* Program constants
\* ------------------------------------------------------------------------
\* 24 * time.Hour, the life of an idempotency entry, in ticks
IdemTTL == 2
DefaultListLimit == 25
MaxListLimit == 100
TextMaxLength == 2048

StatusOK == 200
StatusBadRequest == 400
StatusUnauthorized == 401
StatusForbidden == 403
StatusNotFound == 404
StatusConflict == 409
StatusInternalServerError == 500

\* ------------------------------------------------------------------------
\* Value domains
\* ------------------------------------------------------------------------
Alice == "did:ra:alice"
Bob == "did:ra:bob"
DIDs == {Alice, Bob}

Post == "com.registryaccord.feed.post"
Profile == "com.registryaccord.profile"
Other == "com.example.other"

\* Two of the eight supported collections; the other six are handled by the
\* same code and differ only in their schema.
SupportedCollections == {Post, Profile}

Backends == {"memory", "postgres"}

ReqIds == {1, 2}

\* A JSON object is a set of members [name, type, len]; len is the length of
\* a string member (0 for the other types).
Member(n, t, l) == [name |-> n, type |-> t, len |-> l]

RecA == {Member("text", "string", 5), Member("createdAt", "string", 20),
         Member("authorDid", "string", 12)}
RecB == {Member("text", "string", 3), Member("createdAt", "string", 20),
         Member("authorDid", "string", 12)}
RecMissing == {Member("text", "string", 5)}
RecLong == {Member("text", "string", 3000), Member("createdAt", "string", 20),
            Member("authorDid", "string", 12)}
RecProfile == {Member("displayName", "string", 5)}

\* ------------------------------------------------------------------------
\* Schema validation (internal/schema/validator.go)
\* ------------------------------------------------------------------------
Required(collection) ==
    IF collection = Post THEN {"text", "createdAt", "authorDid"}
    ELSE IF collection = Profile THEN {"displayName"}
    ELSE {}

\* properties of the compiled schemas: name -> [type, maxLength]; a
\* maxLength of 0 stands for "no maxLength"
Properties(collection) ==
    IF collection = Post
    THEN {[name |-> "text", type |-> "string", maxLength |-> TextMaxLength],
          [name |-> "createdAt", type |-> "string", maxLength |-> 0],
          [name |-> "authorDid", type |-> "string", maxLength |-> 0]}
    ELSE IF collection = Profile
    THEN {[name |-> "displayName", type |-> "string", maxLength |-> 64],
          [name |-> "bio", type |-> "string", maxLength |-> 256]}
    ELSE {}

SchemaAccepts(collection, record) ==
    /\ \A f \in Required(collection) : \E m \in record : m.name = f
    /\ \A m \in record : \A p \in Properties(collection) :
          m.name = p.name =>
             /\ m.type = p.type
             /\ (p.maxLength > 0 => m.len <= p.maxLength)

\* Validator.Validate: [ok, version]
Validate(collection, record) ==
    IF collection \notin SupportedCollections
    THEN [ok |-> FALSE, version |-> ""]
    ELSE IF ~SchemaAccepts(collection, record)
    THEN [ok |-> FALSE, version |-> ""]
    ELSE [ok |-> TRUE, version |-> "1.0.0"]

\* Resolver.ResolveSchemaVersion: [ok, version]
ResolveSchemaVersion(collection) ==
    IF collection \in SupportedCollections
    THEN [ok |-> TRUE, version |-> "1.0.0"]
    ELSE [ok |-> FALSE, version |-> ""]

\* ------------------------------------------------------------------------
\* The resolver that reads SPEC_INDEX.json (the second Resolver of the
\* sources).  A resolved version is [ok, version, tag]: the string
\* version ++ tag, with tag either empty or ":deprecated".
\* ------------------------------------------------------------------------
DeprecatedTag == ":deprecated"

\* SchemaInfo; deprecates and replacedBy tell whether the pointer is set
SchemaInfo(namespace, versions, latestStable, status, deprecates, replacedBy) ==
    [namespace |-> namespace, versions |-> versions, latestStable |-> latestStable,
     status |-> status, deprecates |-> deprecates, replacedBy |-> replacedBy]

\* getSchemaIndex returned an error
NoIndex == <<SchemaInfo("", <<>>, "", "error", FALSE, FALSE)>>

\* the switch on the collection's prefix
IndexNamespace(collection) ==
    IF collection = Post THEN "ra.social.post"
    ELSE IF collection = Profile THEN "ra.social.profile"
    ELSE ""

Resolved(version, tag) == [ok |-> TRUE, version |-> version, tag |-> tag]

ResolveError == [ok |-> FALSE, version |-> "", tag |-> ""]

\* the first entry of the index with the collection's namespace decides
ResolveFromIndex(index, collection) ==
    LET namespace == IndexNamespace(collection)
        hits == {i \in 1..Len(index) : index[i].namespace = namespace}
    IN  IF index = NoIndex \/ namespace = "" \/ hits = {}
        THEN ResolveError
        ELSE LET schema == index[CHOOSE i \in hits : \A j \in hits : i <= j]
             IN  IF schema.status = "stable"
                 THEN Resolved(schema.latestStable, "")
                 ELSE IF schema.deprecates
                 THEN Resolved(schema.latestStable, DeprecatedTag)
                 ELSE IF Len(schema.versions) > 0
                 THEN Resolved(schema.versions[Len(schema.versions)],
                               IF schema.replacedBy THEN DeprecatedTag ELSE "")
                 ELSE ResolveError

\* what NewMux was given: which Resolver the build carries, what the index
\* of the specs repository holds, CDV_REJECT_DEPRECATED_SCHEMAS
Config(resolver, index, rejectDeprecatedSchemas) ==
    [resolver |-> resolver, index |-> index,
     rejectDeprecatedSchemas |-> rejectDeprecatedSchemas]

DefaultConfig == Config("table", NoIndex, FALSE)

\* m.validator.ResolveSchemaVersion under the configuration c
Resolve(c, collection) ==
    IF c.resolver = "table"
    THEN LET res == ResolveSchemaVersion(collection)
         IN  [ok |-> res.ok, version |-> res.version, tag |-> ""]
    ELSE ResolveFromIndex(c.index, collection)

\* ------------------------------------------------------------------------
\* Requests of POST /v1/repo/record (model.CreateRecordRequest plus the
\* authenticated subject the middleware put in the context)
\* ------------------------------------------------------------------------
BaseReq ==
    [wellFormed |-> TRUE, subject |-> Alice, collection |-> Post, did |-> Alice,
     hasRecord |-> TRUE, record |-> RecA, hasCreatedAt |-> FALSE, createdAt |-> 0,
     idempotencyKey |-> ""]

\* the request bodies the clients of the model send
Inputs ==
    { BaseReq,
      [BaseReq EXCEPT !.idempotencyKey = "k1"],
      [BaseReq EXCEPT !.idempotencyKey = "k1", !.record = RecB],
      [BaseReq EXCEPT !.idempotencyKey = "k1", !.record = RecMissing],
      [BaseReq EXCEPT !.record = RecMissing],
      [BaseReq EXCEPT !.record = RecLong],
      [BaseReq EXCEPT !.collection = Other],
      [BaseReq EXCEPT !.collection = Profile, !.record = RecProfile,
                      !.hasCreatedAt = TRUE],
      [BaseReq EXCEPT !.did = Bob],
      [BaseReq EXCEPT !.did = Bob, !.record = RecMissing, !.idempotencyKey = "k1"],
      [BaseReq EXCEPT !.did = Bob, !.collection = ""],
      [BaseReq EXCEPT !.hasRecord = FALSE, !.record = {}],
      [BaseReq EXCEPT !.wellFormed = FALSE],
      [BaseReq EXCEPT !.subject = Bob, !.did = Bob, !.idempotencyKey = "k1"] }

\* fmt.Sprintf("%x", sha256.Sum256(...)): an injective digest
KeyHash(key) == <<"sha256", key>>

\* sha256 of json.Marshal(req): every field of the decoded request body
RequestHash(in) ==
    <<"sha256", in.collection, in.did, in.hasRecord, in.record,
      in.hasCreatedAt, in.createdAt, in.idempotencyKey>>

\* the hash slot of an entry of the in-memory store, which keeps none
NoHash == <<"sha256", "", "", FALSE, {}, FALSE, 0, "">>

\* ------------------------------------------------------------------------
\* Records and responses
\* ------------------------------------------------------------------------
RKey(ts, entropy) == <<ts, entropy>>

\* lexicographic order of ULIDs: timestamp first, then entropy
RKeyLess(a, b) == a[1] < b[1] \/ (a[1] = b[1] /\ a[2] < b[2])

URI(did, collection, rkey) == [did |-> did, collection |-> collection, rkey |-> rkey]

NoURI == URI("", "", RKey(0, 0))

NoRecord ==
    [id |-> 0, did |-> "", collection |-> "", rkey |-> RKey(0, 0), uri |-> NoURI,
     cid |-> 0, value |-> {}, indexedAt |-> 0, schemaVersion |-> ""]

SuccessJson(uri, cid, indexedAt) ==
    [kind |-> "data", uri |-> uri, cid |-> cid, indexedAt |-> indexedAt, code |-> ""]

ErrorJson(code) ==
    [kind |-> "error", uri |-> NoURI, cid |-> 0, indexedAt |-> 0, code |-> code]

\* json.Marshal: the encoding and nothing else
Marshal(json) == [json |-> json, trailer |-> ""]

\* json.Encoder.Encode: the encoding followed by a newline
Encode(json) == [json |-> json, trailer |-> "\n"]

NoBody == Marshal(ErrorJson(""))

\* writeSuccess
WriteSuccess(json) ==
    [status |-> StatusOK, code |-> "", body |-> Encode(json), replay |-> FALSE]

\* errordefs.New + writeErrorDef
WriteErrorDef(status, code) ==
    [status |-> status, code |-> code, body |-> Encode(ErrorJson(code)),
     replay |-> FALSE]

\* the cached response written back verbatim (mux.go, idempotency probe)
WriteReplay(row) ==
    [status |-> row.status, code |-> "", body |-> row.body, replay |-> TRUE]

NoResponse == [status |-> 0, code |-> "", body |-> NoBody, replay |-> FALSE]

\* ------------------------------------------------------------------------
\* State
\* ------------------------------------------------------------------------
VARIABLES
    backend,      \* which Store the service was started with
    now,          \* the clock
    accounts,     \* the accounts table / map: set of DIDs
    records,      \* the records, in insertion order
    idempotency,  \* the idempotency entries
    events,       \* envelopes PublishRecordCreated handed to js.Publish, in order
    req,          \* per request: position in handleCreateRecord and its locals
    list,         \* a client paging through GET /v1/repo/listRecords
    s3,           \* the object-store configuration the service was started with
    assets,       \* the media_assets table / map
    objects,      \* the objects of the object store
    mediaEvents,  \* envelopes PublishMediaFinalized handed to js.Publish, in order
    up,           \* a client uploading one media asset
    pub,          \* the event publisher and the streams of the broker
    auth,         \* the JWKS client, the issuer's key set, the HTTP exchanges
    st,           \* both Stores, driven side by side through the Store interface
    cfg           \* the schema resolver and the settings NewMux was given

storeVars == <<accounts, records, idempotency>>
listVars == <<list>>
mediaVars == <<s3, assets, objects, mediaEvents, up>>

\* ------------------------------------------------------------------------
\* Store operations (internal/storage/postgres.go: both stores)
\* ------------------------------------------------------------------------
SeqToSet(s) == {s[i] : i \in 1..Len(s)}

\* GetAccount: TRUE when the account exists (otherwise ErrNotFound)
GetAccount(accts, did) == did \in accts

\* CreateAccount: ErrConflict when the account exists
CreateAccount(accts, did) ==
    IF did \in accts
    THEN [err |-> "conflict", accounts |-> accts]
    ELSE [err |-> "", accounts |-> accts \cup {did}]

\* the unique constraints a new row is checked against
MemoryDuplicate(recs, rec) == \E x \in SeqToSet(recs) : x.uri = rec.uri

PostgresDuplicate(recs, rec) ==
    \E x \in SeqToSet(recs) :
        \/ x.id = rec.id
        \/ x.uri = rec.uri
        \/ (x.did = rec.did /\ x.collection = rec.collection /\ x.rkey = rec.rkey)

\* CreateRecord of either store
CreateRecord(be, accts, recs, rec) ==
    IF rec.did \notin accts
    THEN [err |-> "account not found", records |-> recs]
    ELSE IF (be = "memory" /\ MemoryDuplicate(recs, rec))
            \/ (be = "postgres" /\ PostgresDuplicate(recs, rec))
    THEN [err |-> "conflict", records |-> recs]
    ELSE [err |-> "", records |-> Append(recs, rec)]

IdemRow(keyHash, requestHash, body, status, expiresAt) ==
    [keyHash |-> keyHash, requestHash |-> requestHash, body |-> body,
     status |-> status, expiresAt |-> expiresAt]

\* memory.StoreIdempotentResponse: one entry per key hash, overwritten; the
\* in-memory store takes no request hash
MemoryStoreIdempotentResponse(idem, keyHash, body, status, expiresAt) ==
    [err |-> "",
     idempotency |-> {x \in idem : x.keyHash # keyHash}
                       \cup {IdemRow(keyHash, NoHash, body, status, expiresAt)}]

\* postgres.StoreIdempotentResponse: conflict probe, then upsert on
\* (key_hash, request_hash)
PostgresStoreIdempotentResponse(idem, keyHash, requestHash, body, status, expiresAt) ==
    IF \E x \in idem : x.keyHash = keyHash /\ x.requestHash # requestHash
    THEN [err |-> "conflict", idempotency |-> idem]
    ELSE [err |-> "",
          idempotency |-> {x \in idem : ~(x.keyHash = keyHash /\ x.requestHash = requestHash)}
                            \cup {IdemRow(keyHash, requestHash, body, status, expiresAt)}]

StoreIdempotentResponse(be, idem, keyHash, requestHash, body, status, expiresAt) ==
    IF be = "memory"
    THEN MemoryStoreIdempotentResponse(idem, keyHash, body, status, expiresAt)
    ELSE PostgresStoreIdempotentResponse(idem, keyHash, requestHash, body, status, expiresAt)

\* memory.GetIdempotentResponse: the rows it may return; an entry is expired
\* when the clock is after expiresAt
MemoryIdempotentHits(idem, keyHash, t) ==
    {x \in idem : x.keyHash = keyHash /\ ~(t > x.expiresAt)}

\* ... and what it leaves in the map: an expired entry of the key is deleted
MemoryIdempotentAfterGet(idem, keyHash, t) ==
    {x \in idem : ~(x.keyHash = keyHash /\ t > x.expiresAt)}

\* postgres.GetIdempotentResponse: WHERE key_hash = $1 AND expires_at > now
PostgresIdempotentHits(idem, keyHash, t) ==
    {x \in idem : x.keyHash = keyHash /\ x.expiresAt > t}

IdempotentHits(be, idem, keyHash, t) ==
    IF be = "memory" THEN MemoryIdempotentHits(idem, keyHash, t)
    ELSE PostgresIdempotentHits(idem, keyHash, t)

IdempotentAfterGet(be, idem, keyHash, t) ==
    IF be = "memory" THEN MemoryIdempotentAfterGet(idem, keyHash, t) ELSE idem

\* ------------------------------------------------------------------------
\* Event publisher (internal/event/nats.go), record stream
\* ------------------------------------------------------------------------
\* the envelope of PublishRecordCreated
RecordCreatedEnvelope(collection, rec, corr) ==
    [type |-> "created", collection |-> collection, uri |-> rec.uri,
     cid |-> rec.cid, schemaVersion |-> rec.schemaVersion, correlationId |-> corr]

\* the source holds two publishers: internal/event/nats.go keys the dedup
\* maps by correlation id, with a window of 5 minutes and entries kept for
\* 10; the other nats.go keys them by record id and asset id, with a window
\* of 2 minutes and entries kept for 5
Builds == {"correlationId", "recordId"}
DedupWindow(build) == IF build = "correlationId" THEN 5 ELSE 2
DedupRetention(build) == IF build = "correlationId" THEN 10 ELSE 5

\* a context carrying a correlation id under a key of the given type;
\* correlation ids are positive numbers, 0 is the empty string
Ctx(keyType, correlationId) == [keyType |-> keyType, correlationId |-> correlationId]

\* ctx.Value(ContextKeyCorrelationID) inside package event: a value stored
\* under the key of another package's type is not found
CtxCorrelationID(ctx) ==
    IF ctx.keyType = "event.ContextKey" THEN ctx.correlationId ELSE 0

\* the result of the last publish call
PubResult(stream, corr, key, result) ==
    [stream |-> stream, corr |-> corr, key |-> key, result |-> result]

\* NewPublisherFromEnv: natsPub with empty dedup maps when connected, noop
\* otherwise; clock in minutes; acked: what the streams acknowledged, with
\* the correlation id of the calling context and the time
\* a call of PublishRecordCreated in progress on a goroutine: the context it
\* was given, the key it probes the dedup map with, where it stands, how it
\* ended and when it handed its envelope to the broker
IdlePublish ==
    [pc |-> "idle", ctx |-> Ctx("", 0), stream |-> "", key |-> 0, result |-> "none",
     sentAt |-> 0]

NatsPub(build, connected) ==
    [build |-> build, connected |-> connected, reachable |-> TRUE, clock |-> 0,
     recordDedup |-> {}, mediaDedup |-> {},
     RA_RECORDS |-> <<>>, RA_MEDIA |-> <<>>,
     n |-> 0, last |-> PubResult("", 0, 0, "none"), acked |-> {},
     calls |-> [c \in ReqIds |-> IdlePublish]]

\* initStreams: the subjects bound to each stream, as token sequences
Streams ==
    { [name |-> "RA_RECORDS", subjects |-> <<"cdv", "records", "*">>],
      [name |-> "RA_MEDIA", subjects |-> <<"cdv", "media", "*">>] }

\* subject matching of the broker: "*" stands for exactly one token
SubjectMatches(filter, subject) ==
    /\ Len(filter) = Len(subject)
    /\ \A i \in 1..Len(filter) : filter[i] = "*" \/ filter[i] = subject[i]

\* the tokens of a collection NSID
Tokens(collection) ==
    CASE collection = Post -> <<"com", "registryaccord", "feed", "post">>
      [] collection = Profile -> <<"com", "registryaccord", "profile">>
      [] OTHER -> <<collection>>

\* fmt.Sprintf("cdv.records.%s.created", collection), "cdv.media.finalized"
RecordsSubject(collection) == <<"cdv", "records">> \o Tokens(collection) \o <<"created">>
MediaSubject == <<"cdv", "media", "finalized">>

\* p.js.Publish: the name of the stream that stored and acknowledged the
\* message; "" is the error of a publish no stream answers
JsPublish(p, subject) ==
    LET bound == {s \in Streams : SubjectMatches(s.subjects, subject)}
    IN  IF p.reachable /\ bound # {} THEN (CHOOSE s \in bound : TRUE).name ELSE ""

\* a publisher that goes on after an error of p.js.Publish
PublishErrorIgnored(stream) == FALSE

\* if err != nil { return err } after p.js.Publish
JsPublishError(stream) == stream = ""

shouldDedup(p, key, dedupMap) ==
    \E e \in dedupMap : e.key = key /\ p.clock - e.t < DedupWindow(p.build)

updateDedup(p, key, dedupMap) ==
    {e \in dedupMap : e.key # key /\ ~(e.t < p.clock - DedupRetention(p.build))}
        \cup {[key |-> key, t |-> p.clock]}

\* the correlation id of the envelope: the one of the context, a fresh UUID
\* when there is none; the publisher keyed by record id always takes a fresh
\* one
EnvelopeCorrelationID(p, ctx, fresh) ==
    IF p.build = "correlationId" /\ CtxCorrelationID(ctx) # 0
    THEN CtxCorrelationID(ctx) ELSE fresh

\* PublishRecordCreated: [err, sent, envelope, pub]
PublishRecordCreated(p, ctx, fresh, collection, rec) ==
    LET corr == EnvelopeCorrelationID(p, ctx, fresh)
        key == IF p.build = "correlationId" THEN corr ELSE rec.id
        envelope == RecordCreatedEnvelope(collection, rec, corr)
        stream == JsPublish(p, RecordsSubject(collection))
        q == [p EXCEPT !.n = @ + 1]
        done(result) == PubResult("RA_RECORDS", ctx.correlationId, key, result)
    IN  IF ~p.connected
        THEN [err |-> "", sent |-> FALSE, envelope |-> envelope,
              pub |-> [q EXCEPT !.last = done("noop")]]
        ELSE IF shouldDedup(p, key, p.recordDedup)
        THEN [err |-> "", sent |-> FALSE, envelope |-> envelope,
              pub |-> [q EXCEPT !.last = done("dropped")]]
        ELSE IF JsPublishError(stream)
        THEN [err |-> "nats: no response from stream", sent |-> TRUE,
              envelope |-> envelope, pub |-> [q EXCEPT !.last = done("error")]]
        ELSE [err |-> "", sent |-> TRUE, envelope |-> envelope,
              pub |-> [q EXCEPT
                         !.last = done("sent"),
                         !.RA_RECORDS = IF stream = "RA_RECORDS"
                                        THEN Append(@, envelope) ELSE @,
                         !.recordDedup = updateDedup(p, key, @),
                         !.acked = @ \cup {[stream |-> stream,
                                            corr |-> ctx.correlationId,
                                            t |-> p.clock]}]]

\* ------------------------------------------------------------------------
\* handleCreateRecord (internal/server/mux.go)
\* ------------------------------------------------------------------------
IdleReq ==
    [pc |-> "idle", in |-> BaseReq, prior |-> {},
     schemaVersion |-> "", rec |-> NoRecord, resp |-> NoResponse]

\* req.Collection == "" || req.DID == "" || req.Record == nil
RequiredFieldsPresent(in) == in.collection # "" /\ in.did # "" /\ in.hasRecord

\* the DID binding left out
DidBindingSkipped(in) == TRUE

\* req.DID != jwtDID
DidMatchesSubject(in) == in.did = in.subject

\* strings.HasSuffix(resolvedVersion, ":deprecated")
HasDeprecatedSuffix(res) == res.tag = DeprecatedTag

\* the schema version the handler stores: the validated version when the
\* resolver failed, else the resolved version, its tag trimmed after a
\* warning in the log; m.rejectDeprecatedSchemas is read nowhere
ResolvedVersion(c, collection, validated) ==
    LET res == Resolve(c, collection)
    IN  IF ~res.ok THEN validated
        ELSE IF HasDeprecatedSuffix(res) THEN res.version
        ELSE res.version

Respond(r, resp) ==
    req' = [req EXCEPT ![r].pc = "done", ![r].resp = resp]

\* a client sends one of the bodies ins; prior remembers the requests
\* already answered
Send(r, ins) ==
    /\ req[r].pc = "idle"
    /\ \A q \in ReqIds : q < r => req[q].pc # "idle"
    /\ \E in \in ins :
          req' = [req EXCEPT ![r] = [IdleReq EXCEPT !.pc = "start", !.in = in,
                      !.prior = {q \in ReqIds : req[q].pc = "done"}]]
    /\ UNCHANGED <<cfg, st, auth, pub, backend, now, accounts, records, idempotency, events, listVars, mediaVars>>

Arrive(r) == Send(r, Inputs)

\* decode, required fields, DID binding, idempotency probe, schema
\* validation and version resolution
Begin(r) ==
    /\ req[r].pc = "start"
    /\ LET in == req[r].in
           keyHash == KeyHash(in.idempotencyKey)
           hits == IdempotentHits(backend, idempotency, keyHash, now)
           v == Validate(in.collection, in.record)
       IN  IF ~in.wellFormed \/ ~RequiredFieldsPresent(in)
           THEN /\ Respond(r, WriteErrorDef(StatusBadRequest, "CDV_VALIDATION"))
                /\ UNCHANGED idempotency
           ELSE IF ~DidMatchesSubject(in)
           THEN /\ Respond(r, WriteErrorDef(StatusForbidden, "CDV_DID_MISMATCH"))
                /\ UNCHANGED idempotency
           ELSE IF in.idempotencyKey # "" /\ hits # {}
           THEN /\ \E row \in hits :
                      Respond(r, WriteReplay(row))
                /\ UNCHANGED idempotency
           ELSE /\ idempotency' =
                      IF in.idempotencyKey # ""
                      THEN IdempotentAfterGet(backend, idempotency, keyHash, now)
                      ELSE idempotency
                /\ IF ~v.ok
                   THEN Respond(r, WriteErrorDef(StatusBadRequest, "CDV_SCHEMA_REJECT"))
                   ELSE req' = [req EXCEPT ![r].pc = "getAccount",
                           ![r].schemaVersion = ResolvedVersion(cfg, in.collection, v.version)]
    /\ UNCHANGED <<cfg, st, auth, pub, backend, now, accounts, records, events, listVars, mediaVars>>

\* m.s.GetAccount
GetAccountStep(r) ==
    /\ req[r].pc = "getAccount"
    /\ req' = [req EXCEPT ![r].pc =
                  IF GetAccount(accounts, req[r].in.did) THEN "createRecord"
                  ELSE "createAccount"]
    /\ UNCHANGED <<cfg, st, auth, pub, backend, now, accounts, records, idempotency, events, listVars, mediaVars>>

\* m.s.CreateAccount after ErrNotFound; any error answers 500
CreateAccountStep(r) ==
    /\ req[r].pc = "createAccount"
    /\ LET res == CreateAccount(accounts, req[r].in.did)
       IN  IF res.err # ""
           THEN /\ Respond(r, WriteErrorDef(StatusInternalServerError, "CDV_INTERNAL"))
                /\ UNCHANGED accounts
           ELSE /\ accounts' = res.accounts
                /\ req' = [req EXCEPT ![r].pc = "createRecord"]
    /\ UNCHANGED <<cfg, st, auth, pub, backend, now, records, idempotency, events, listVars, mediaVars>>

\* the record the handler builds: ids are fresh UUIDs (here the request id),
\* the rkey a ULID of the current time and fresh entropy
NewRecord(r, in, schemaVersion, t, entropy) ==
    [id |-> r, did |-> in.did, collection |-> in.collection,
     rkey |-> RKey(t, entropy),
     uri |-> URI(in.did, in.collection, RKey(t, entropy)),
     cid |-> r, value |-> in.record,
     indexedAt |-> IF in.hasCreatedAt THEN in.createdAt ELSE t,
     schemaVersion |-> schemaVersion]

\* mint the identifiers and m.s.CreateRecord
CreateRecordStep(r) ==
    /\ req[r].pc = "createRecord"
    /\ \E entropy \in 0..(MaxEntropy - 1) :
          LET rec == NewRecord(r, req[r].in, req[r].schemaVersion, now, entropy)
              res == CreateRecord(backend, accounts, records, rec)
          IN  IF res.err = "conflict"
              THEN /\ Respond(r, WriteErrorDef(StatusConflict, "CDV_CONFLICT"))
                   /\ UNCHANGED records
              ELSE IF res.err # ""
              THEN /\ Respond(r, WriteErrorDef(StatusInternalServerError, "CDV_INTERNAL"))
                   /\ UNCHANGED records
              ELSE /\ records' = res.records
                   /\ req' = [req EXCEPT ![r].pc = "publish", ![r].rec = rec]
    /\ UNCHANGED <<cfg, st, auth, pub, backend, now, accounts, idempotency, events, listVars, mediaVars>>

SuccessData(rec) == SuccessJson(rec.uri, rec.cid, rec.indexedAt)

\* m.p.PublishRecordCreated with the context of the request, which holds the
\* correlation id under the key type of package server; the error is logged;
\* without an idempotency key the response follows
PublishStep(r) ==
    /\ req[r].pc = "publish"
    /\ LET res == PublishRecordCreated(pub, Ctx("server.ContextKey", r), r,
                                       req[r].in.collection, req[r].rec)
       IN  /\ pub' = res.pub
           /\ events' = IF res.sent THEN Append(events, res.envelope) ELSE events
    /\ IF req[r].in.idempotencyKey = ""
       THEN Respond(r, WriteSuccess(SuccessData(req[r].rec)))
       ELSE req' = [req EXCEPT ![r].pc = "storeIdem"]
    /\ UNCHANGED <<cfg, st, auth, backend, now, accounts, records, idempotency, listVars, mediaVars>>

\* m.s.StoreIdempotentResponse and the response
StoreIdemStep(r) ==
    /\ req[r].pc = "storeIdem"
    /\ LET in == req[r].in
           res == StoreIdempotentResponse(backend, idempotency,
                     KeyHash(in.idempotencyKey), RequestHash(in),
                     Marshal(SuccessData(req[r].rec)), StatusOK, now + IdemTTL)
       IN  IF res.err = "conflict"
           THEN /\ Respond(r, WriteErrorDef(StatusConflict, "CDV_CONFLICT"))
                /\ UNCHANGED idempotency
           ELSE /\ idempotency' = res.idempotency
                /\ Respond(r, WriteSuccess(SuccessData(req[r].rec)))
    /\ UNCHANGED <<cfg, st, auth, pub, backend, now, accounts, records, events, listVars, mediaVars>>

\* ------------------------------------------------------------------------
\* Cursors (internal/storage/postgres.go: encodeCursor, decodeCursor,
\* encodeMemoryCursor, decodeMemoryCursor)
\* ------------------------------------------------------------------------
\* time.Time{}: before every instant of the clock
ZeroTime == 0 - 1

\* the rkey "" of a cursor without one: below every ULID
EmptyRKey == <<0 - 1, 0>>

\* the spacing of the float64 values around UnixNano() of the instants of the
\* clock, in ticks
Float64Ulp == 2

\* int64 -> float64 -> int64: round to the nearest representable value, ties
\* to the even mantissa
Float64(n) ==
    LET q == n \div Float64Ulp
        rem == n % Float64Ulp
    IN  IF 2 * rem < Float64Ulp THEN q * Float64Ulp
        ELSE IF 2 * rem > Float64Ulp THEN (q + 1) * Float64Ulp
        ELSE IF q % 2 = 0 THEN q * Float64Ulp
        ELSE (q + 1) * Float64Ulp

\* The value of the cursor parameter, by what its decoders make of it:
\*   ""            no cursor
\*   "badBase64"   not base64url
\*   "notObject"   base64url of something that is no JSON object
\*   "emptyObject" base64url of {}
\*   "cursorData"  base64url of {"LastIndexedAt": <RFC 3339>, "LastRKey": <string>}
\*   "memoryMap"   base64url of {"lastIndexedAt": <integer>, "lastRKey": <string>}
CursorString(kind, t, k) == [kind |-> kind, t |-> t, k |-> k]

NoCursor == CursorString("", ZeroTime, EmptyRKey)

encodeCursor(lastIndexedAt, lastRKey) ==
    CursorString("cursorData", lastIndexedAt, lastRKey)

encodeMemoryCursor(lastIndexedAt, lastRKey) ==
    CursorString("memoryMap", lastIndexedAt, lastRKey)

\* err is the chain of messages of the error, <<>> for nil
Decoded(err, panic, t, k) == [err |-> err, panic |-> panic, t |-> t, k |-> k]

\* decodeCursor: base64, then json.Unmarshal into cursorData; a member of the
\* wrong JSON type is an error, a missing member the zero value
decodeCursor(c) ==
    IF c.kind = "badBase64"
    THEN Decoded(<<"invalid cursor format">>, FALSE, ZeroTime, EmptyRKey)
    ELSE IF c.kind \in {"notObject", "memoryMap"}
    THEN Decoded(<<"invalid cursor data">>, FALSE, ZeroTime, EmptyRKey)
    ELSE IF c.kind = "emptyObject"
    THEN Decoded(<<>>, FALSE, ZeroTime, EmptyRKey)
    ELSE Decoded(<<>>, FALSE, c.t, c.k)

\* decodeMemoryCursor: base64, then json.Unmarshal into a map and two
\* unchecked type assertions, which panic on a missing member; the integer
\* comes back through float64
decodeMemoryCursor(c) ==
    IF c.kind \in {"badBase64", "notObject"}
    THEN Decoded(<<"illegal base64 data or JSON">>, FALSE, ZeroTime, EmptyRKey)
    ELSE IF c.kind \in {"emptyObject", "cursorData"}
    THEN Decoded(<<>>, TRUE, ZeroTime, EmptyRKey)
    ELSE Decoded(<<>>, FALSE, Float64(c.t), c.k)

\* ------------------------------------------------------------------------
\* ListRecords of both stores
\* ------------------------------------------------------------------------
ListRecordsQuery(did, collection, limit, cursor, since, until) ==
    [did |-> did, collection |-> collection, limit |-> limit, cursor |-> cursor,
     since |-> since, until |-> until]

ListRecordsResult(err, panic, recs, nextCursor) ==
    [err |-> err, panic |-> panic, records |-> recs, nextCursor |-> nextCursor]

\* ORDER BY indexed_at DESC, rkey ASC / the less function of sort.Slice
SortsBefore(a, b) ==
    \/ a.indexedAt > b.indexedAt
    \/ (a.indexedAt = b.indexedAt /\ RKeyLess(a.rkey, b.rkey))

\* every order the sort may leave the rows in: rows that compare equal come
\* in any order
RECURSIVE Sorts(_)
Sorts(S) ==
    IF S = {} THEN {<<>>}
    ELSE UNION {{<<x>> \o rest : rest \in Sorts(S \ {x})} :
                   x \in {y \in S : \A z \in S : ~SortsBefore(z, y)}}

Min(a, b) == IF a < b THEN a ELSE b

\* limit <= 0 -> 25, limit > 100 -> 100 (both stores)
StoreLimit(limit) ==
    IF limit <= 0 THEN 25 ELSE IF limit > 100 THEN 100 ELSE limit

\* the position after the cursor
AfterCursor(x, t, k) ==
    x.indexedAt < t \/ (x.indexedAt = t /\ RKeyLess(k, x.rkey))

\* postgres.ListRecords: the results the statement may produce
PostgresListRecords(recs, q) ==
    LET c == decodeCursor(q.cursor)
        limit == StoreLimit(q.limit)
        rows == {x \in SeqToSet(recs) :
                    /\ x.did = q.did
                    /\ (q.collection # "" => x.collection = q.collection)
                    /\ (q.since # ZeroTime => x.indexedAt >= q.since)
                    /\ (q.until # ZeroTime => x.indexedAt <= q.until)
                    /\ (q.cursor.kind # "" => AfterCursor(x, c.t, c.k))}
    IN  IF q.cursor.kind # "" /\ c.err # <<>>
        THEN {ListRecordsResult(<<"invalid cursor">> \o c.err, FALSE, <<>>, NoCursor)}
        ELSE {LET recordCount == Min(Len(ordered), limit + 1)
                  page == SubSeq(ordered, 1, Min(Len(ordered), limit))
              IN  ListRecordsResult(<<>>, FALSE, page,
                     IF recordCount > limit /\ Len(page) > 0
                     THEN encodeCursor(page[Len(page)].indexedAt, page[Len(page)].rkey)
                     ELSE NoCursor)
              : ordered \in Sorts(rows)}

\* memory.ListRecords: startIndex is one past the first record after the
\* cursor; a cursor that does not decode is ignored; the test for more
\* records reads the unfiltered list of the DID
MemoryStartIndex(filtered, c) ==
    LET after == {i \in 1..Len(filtered) : AfterCursor(filtered[i], c.t, c.k)}
    IN  IF after = {} THEN 0
        ELSE (CHOOSE i \in after : \A j \in after : i <= j)

MemoryListRecords(recs, q) ==
    LET byDID == SelectSeq(recs, LAMBDA x : x.did = q.did)
        c == decodeMemoryCursor(q.cursor)
        limit == StoreLimit(q.limit)
        matching == {x \in SeqToSet(byDID) :
                        q.collection = "" \/ x.collection = q.collection}
    IN  IF Len(byDID) = 0
        THEN {ListRecordsResult(<<>>, FALSE, <<>>, NoCursor)}
        ELSE IF q.cursor.kind # "" /\ c.panic
        THEN {ListRecordsResult(<<>>, TRUE, <<>>, NoCursor)}
        ELSE {LET startIndex == IF q.cursor.kind # "" /\ c.err = <<>>
                                THEN MemoryStartIndex(filtered, c) ELSE 0
                  endIndex == Min(startIndex + limit, Len(filtered))
                  page == SubSeq(filtered, startIndex + 1, endIndex)
              IN  ListRecordsResult(<<>>, FALSE, page,
                     IF endIndex < Len(byDID) /\ Len(page) > 0
                     THEN encodeMemoryCursor(page[Len(page)].indexedAt,
                                             page[Len(page)].rkey)
                     ELSE NoCursor)
              : filtered \in Sorts(matching)}

ListRecords(be, recs, q) ==
    IF be = "memory" THEN MemoryListRecords(recs, q) ELSE PostgresListRecords(recs, q)

\* ------------------------------------------------------------------------
\* handleListRecords (internal/server/mux.go)
\* ------------------------------------------------------------------------
\* the query string: limit is [given, v] (an absent or non-numeric limit is
\* not given); since and until are ZeroTime when absent or not RFC 3339
Params(did, collection, limit, cursor, since, until) ==
    [did |-> did, collection |-> collection, limit |-> limit, cursor |-> cursor,
     since |-> since, until |-> until]

NoLimit == [given |-> FALSE, v |-> 0]
Limit(v) == [given |-> TRUE, v |-> v]

\* the queries the paging client of the model starts with
Queries ==
    { Params(Alice, "", NoLimit, NoCursor, ZeroTime, ZeroTime),
      Params(Alice, "", Limit(1), NoCursor, ZeroTime, ZeroTime),
      Params(Alice, Post, Limit(1), NoCursor, ZeroTime, ZeroTime),
      Params(Alice, Post, Limit(2), NoCursor, ZeroTime, ZeroTime),
      Params(Alice, Post, Limit(0), NoCursor, ZeroTime, ZeroTime),
      Params(Alice, Post, Limit(101), NoCursor, ZeroTime, ZeroTime),
      Params(Bob, "", Limit(1), NoCursor, ZeroTime, ZeroTime),
      Params("", "", NoLimit, NoCursor, ZeroTime, ZeroTime),
      Params(Alice, "", NoLimit, NoCursor, 1, ZeroTime),
      Params(Alice, "", Limit(1), NoCursor, ZeroTime, 1),
      Params(Alice, "", NoLimit, CursorString("badBase64", ZeroTime, EmptyRKey),
             ZeroTime, ZeroTime),
      Params(Alice, "", NoLimit, CursorString("notObject", ZeroTime, EmptyRKey),
             ZeroTime, ZeroTime),
      Params(Alice, "", NoLimit, CursorString("emptyObject", ZeroTime, EmptyRKey),
             ZeroTime, ZeroTime) }

\* limit := DefaultListLimit, replaced by a parsed value in 1..MaxListLimit
\* and by MaxListLimit above it
ListLimit(p) ==
    IF ~p.given THEN DefaultListLimit
    ELSE IF p.v > 0 /\ p.v <= MaxListLimit THEN p.v
    ELSE IF p.v > MaxListLimit THEN MaxListLimit
    ELSE DefaultListLimit

Page(status, code, recs, nextCursor) ==
    [status |-> status, code |-> code, records |-> recs, nextCursor |-> nextCursor]

NoPage == Page(0, "", <<>>, NoCursor)

\* strings.Contains(err.Error(), part): an error is the chain of its wrapped
\* messages
Contains(err, part) == \E i \in 1..Len(err) : err[i] = part

\* the responses handleListRecords may give; a panic of the handler closes
\* the connection without a response (status 0)
HandleListRecords(be, recs, p) ==
    IF p.did = ""
    THEN {Page(StatusBadRequest, "CDV_VALIDATION", <<>>, NoCursor)}
    ELSE {IF res.panic THEN Page(0, "panic", <<>>, NoCursor)
          ELSE IF Contains(res.err, "invalid cursor")
          THEN Page(StatusBadRequest, "CDV_CURSOR_INVALID", <<>>, NoCursor)
          ELSE IF res.err # <<>>
          THEN Page(StatusInternalServerError, "CDV_INTERNAL", <<>>, NoCursor)
          ELSE Page(StatusOK, "", res.records, res.nextCursor)
          : res \in ListRecords(be, recs,
                      ListRecordsQuery(p.did, p.collection, ListLimit(p.limit),
                                       p.cursor, p.since, p.until))}

\* time passes
Tick ==
    /\ now < MaxNow
    /\ now' = now + 1
    /\ UNCHANGED <<cfg, st, auth, pub, backend, accounts, records, idempotency, events, req, listVars, mediaVars>>

\* ------------------------------------------------------------------------
\* A client paging through listRecords: it sends a query, and follows
\* nextCursor for as long as the responses carry one
\* ------------------------------------------------------------------------
IdleList ==
    [pc |-> "idle", p |-> Params("", "", NoLimit, NoCursor, ZeroTime, ZeroTime),
     cursor |-> NoCursor, sent |-> NoCursor, last |-> NoPage, seen |-> <<>>, pages |-> 0,
     prior |-> {}, startLen |-> 0]

\* the first request of the session; prior and startLen remember the
\* requests answered and the records stored when it began
ListStartWith(queries) ==
    /\ list.pc = "idle"
    /\ \E p \in queries :
          list' = [IdleList EXCEPT !.pc = "request", !.p = p, !.cursor = p.cursor,
                      !.prior = {q \in ReqIds : req[q].pc = "done"},
                      !.startLen = Len(records)]
    /\ UNCHANGED <<cfg, st, auth, pub, backend, now, accounts, records, idempotency, events, req, mediaVars>>

ListStart == ListStartWith(Queries)

\* one GET /v1/repo/listRecords and what the client does with the response
ListPage ==
    /\ list.pc = "request"
    /\ list.pages < MaxPages
    /\ \E page \in HandleListRecords(backend, records,
                                      [list.p EXCEPT !.cursor = list.cursor]) :
          list' = [list EXCEPT
                      !.sent = list.cursor,
                      !.last = page,
                      !.seen = @ \o page.records,
                      !.pages = @ + 1,
                      !.cursor = page.nextCursor,
                      !.pc = IF page.status # StatusOK THEN "failed"
                             ELSE IF page.nextCursor.kind # "" THEN "request"
                             ELSE "exhausted"]
    /\ UNCHANGED <<cfg, st, auth, pub, backend, now, accounts, records, idempotency, events, req, mediaVars>>

\* a client that follows nextCursor without keeping the records it is given:
\* one GET /v1/repo/listRecords with the cursor of the last response
ListFollow ==
    /\ list.pc = "request"
    /\ \E page \in HandleListRecords(backend, records,
                                      [list.p EXCEPT !.cursor = list.cursor]) :
          list' = [list EXCEPT
                      !.sent = list.cursor,
                      !.last = page,
                      !.pages = Min(@ + 1, MaxPages),
                      !.cursor = page.nextCursor,
                      !.pc = IF page.status # StatusOK THEN "failed"
                             ELSE IF page.nextCursor.kind # "" THEN "request"
                             ELSE "exhausted"]
    /\ UNCHANGED <<cfg, st, auth, pub, backend, now, accounts, records, idempotency, events, req, mediaVars>>

\* the bodies sent while a client pages
ListInputs ==
    { BaseReq,
      [BaseReq EXCEPT !.idempotencyKey = "k1"],
      [BaseReq EXCEPT !.hasCreatedAt = TRUE, !.createdAt = 1],
      [BaseReq EXCEPT !.collection = Profile, !.record = RecProfile,
                      !.hasCreatedAt = TRUE],
      [BaseReq EXCEPT !.subject = Bob, !.did = Bob] }

\* ------------------------------------------------------------------------
\* Object store (internal/media/s3.go and NewMux of internal/server/mux.go)
\* ------------------------------------------------------------------------
\* CDV_ENV
CdvEnv == "dev"

\* CDV_ALLOWED_MIME_TYPES, by default
AllowedMimeTypes == {"image/jpeg", "image/png", "image/gif", "video/mp4"}

\* the CDV_S3_* variables of the environment, which name the bucket and the
\* credentials the object store knows, and the build of VerifyObject
S3Environment(endpoint, bucket, accessKeyId, secretAccessKey, verify) ==
    [endpoint |-> endpoint, region |-> "us-east-1", bucket |-> bucket,
     accessKeyId |-> accessKeyId, secretAccessKey |-> secretAccessKey,
     verify |-> verify]

NoS3 == S3Environment("", "", "", "", "metadata")

\* an environment with distinct values, and one whose bucket, key id and
\* secret are the same word
S3Environments ==
    {NoS3} \cup
    UNION {{S3Environment("http://minio:9000", "cdv-media", "AKID", "SECRET", v),
            S3Environment("http://minio:9000", "cdv", "cdv", "cdv", v)}
           : v \in {"metadata", "streaming"}}

\* media.NewS3Client(endpoint, region, bucket, accessKey, secretKey)
NewS3Client(endpoint, region, bucket, accessKey, secretKey) ==
    [bucket |-> bucket, accessKey |-> accessKey, secretKey |-> secretKey]

\* m.mediaClient != nil
Configured(env) == env.endpoint # "" /\ env.bucket # ""

\* NewMux: NewS3Client(CDV_S3_ENDPOINT, CDV_S3_REGION, CDV_S3_ACCESS_KEY_ID,
\*                     CDV_S3_SECRET_ACCESS_KEY, CDV_S3_BUCKET)
MediaClient(env) ==
    NewS3Client(env.endpoint, env.region, env.accessKeyId, env.secretAccessKey,
                env.bucket)

\* a request signed with the credentials of the client is served when they
\* are the credentials of the store and its bucket exists
Served(env, client) ==
    /\ client.accessKey = env.accessKeyId
    /\ client.secretKey = env.secretAccessKey
    /\ client.bucket = env.bucket

\* object contents are byte sequences
Contents == {<<1>>, <<1, 2>>}

\* fmt.Sprintf("%x", sha256...): the hex digest of a content; "" is no digest
Sha256(content) == <<"sha256", content>>
NoSha == <<"", <<>>>>

\* strings are sequences of the segments between their slashes
\* "at://<did>/media/<assetId>"
AtMediaURI(did, assetID) == <<"at:", "", did, "media", assetID>>

\* "<CDV_ENV>/<did>/<assetId>" and "/<filename>" when there is one
ObjectKey(did, assetID, filename) ==
    IF filename = "" THEN <<CdvEnv, did, assetID>>
    ELSE <<CdvEnv, did, assetID, filename>>

\* strings.TrimPrefix(uri, "s3://<bucket>/")
TrimPrefix(uri, bucket) ==
    IF Len(uri) >= 3 /\ SubSeq(uri, 1, 3) = <<"s3:", "", bucket>>
    THEN SubSeq(uri, 4, Len(uri))
    ELSE uri

\* GenerateUploadURL: a presigned PUT for the key, signed by the client
GenerateUploadURL(client, key) ==
    [presigned |-> TRUE, client |-> client, key |-> key]

\* "http://localhost:8081/upload/<assetId>"
FallbackUploadURL(assetID) ==
    [presigned |-> FALSE, client |-> NewS3Client("", "", "", "", ""),
     key |-> <<"upload", assetID>>]

\* HeadObject / GetObject
HeadObject(env, client, objs, key) ==
    {o \in objs : Served(env, client) /\ o.bucket = client.bucket /\ o.key = key}

Verified(err, valid, size) == [err |-> err, valid |-> valid, size |-> size]

\* VerifyObject of internal/media/s3.go: the checksum of the object is taken
\* to be ""
VerifyObjectMetadata(env, client, objs, key, expectedChecksum) ==
    LET found == HeadObject(env, client, objs, key)
    IN  IF found = {} THEN Verified("failed to get object metadata", FALSE, 0)
        ELSE LET o == CHOOSE x \in found : TRUE
             IN  Verified("", NoSha = expectedChecksum, Len(o.content))

\* VerifyObject that downloads the object and hashes it
VerifyObjectStreaming(env, client, objs, key, expectedChecksum) ==
    LET found == HeadObject(env, client, objs, key)
    IN  IF found = {} THEN Verified("failed to get object metadata", FALSE, 0)
        ELSE LET o == CHOOSE x \in found : TRUE
             IN  Verified("", Sha256(o.content) = expectedChecksum, Len(o.content))

VerifyObject(env, client, objs, key, expectedChecksum) ==
    IF env.verify = "metadata"
    THEN VerifyObjectMetadata(env, client, objs, key, expectedChecksum)
    ELSE VerifyObjectStreaming(env, client, objs, key, expectedChecksum)

\* ------------------------------------------------------------------------
\* Media assets of both stores (internal/storage/postgres.go)
\* ------------------------------------------------------------------------
MediaAsset(assetID, did, uri, mimeType, size, checksum, createdAt) ==
    [assetId |-> assetID, did |-> did, uri |-> uri, mimeType |-> mimeType,
     size |-> size, checksum |-> checksum, createdAt |-> createdAt]

NoAsset == MediaAsset("", "", <<>>, "", 0, NoSha, 0)

\* CreateMediaAsset: memory keys the map by asset id; postgres has asset_id
\* as primary key and uri unique
CreateMediaAsset(be, accts, as, asset) ==
    IF asset.did \notin accts
    THEN [err |-> "account not found", assets |-> as]
    ELSE IF \E x \in as : \/ x.assetId = asset.assetId
                          \/ (be = "postgres" /\ x.uri = asset.uri)
    THEN [err |-> "conflict", assets |-> as]
    ELSE [err |-> "", assets |-> as \cup {asset}]

\* GetMediaAsset: the asset, or none (ErrNotFound)
GetMediaAsset(as, assetID) == {x \in as : x.assetId = assetID}

\* memory.GetMediaAsset returns the pointer kept in the map: an assignment to
\* a field of the asset it returned is an assignment to the stored asset;
\* postgres scans the row into a fresh value
AssignThrough(be, as, asset) ==
    IF be = "memory"
    THEN {x \in as : x.assetId # asset.assetId}
            \cup {asset : x \in {y \in as : y.assetId = asset.assetId}}
    ELSE as

\* an update that reports success and stores nothing
UpdateMediaAssetLost(as, asset) == [err |-> "", assets |-> as]

\* UpdateMediaAsset: ErrNotFound when there is no such asset
UpdateMediaAsset(as, asset) ==
    IF \A x \in as : x.assetId # asset.assetId
    THEN [err |-> "not found", assets |-> as]
    ELSE [err |-> "", assets |-> {x \in as : x.assetId # asset.assetId} \cup {asset}]

\* the payload of PublishMediaFinalized
MediaFinalizedEnvelope(asset, corr) ==
    [type |-> "cdv.media.finalized", assetId |-> asset.assetId, uri |-> asset.uri,
     checksum |-> asset.checksum, size |-> asset.size, mimeType |-> asset.mimeType,
     correlationId |-> corr]

\* PublishMediaFinalized: [err, sent, envelope, pub]
PublishMediaFinalized(p, ctx, fresh, asset) ==
    LET corr == EnvelopeCorrelationID(p, ctx, fresh)
        key == IF p.build = "correlationId" THEN corr ELSE asset.assetId
        envelope == MediaFinalizedEnvelope(asset, corr)
        stream == JsPublish(p, MediaSubject)
        q == [p EXCEPT !.n = @ + 1]
        done(result) == PubResult("RA_MEDIA", ctx.correlationId, key, result)
    IN  IF ~p.connected
        THEN [err |-> "", sent |-> FALSE, envelope |-> envelope,
              pub |-> [q EXCEPT !.last = done("noop")]]
        ELSE IF shouldDedup(p, key, p.mediaDedup)
        THEN [err |-> "", sent |-> FALSE, envelope |-> envelope,
              pub |-> [q EXCEPT !.last = done("dropped")]]
        ELSE IF JsPublishError(stream)
        THEN [err |-> "nats: no response from stream", sent |-> TRUE,
              envelope |-> envelope, pub |-> [q EXCEPT !.last = done("error")]]
        ELSE [err |-> "", sent |-> TRUE, envelope |-> envelope,
              pub |-> [q EXCEPT
                         !.last = done("sent"),
                         !.RA_MEDIA = IF stream = "RA_MEDIA"
                                      THEN Append(@, envelope) ELSE @,
                         !.mediaDedup = updateDedup(p, key, @),
                         !.acked = @ \cup {[stream |-> stream,
                                            corr |-> ctx.correlationId,
                                            t |-> p.clock]}]]

\* ------------------------------------------------------------------------
\* handleUploadInit, the upload of the client, handleFinalize
\* (internal/server/mux.go)
\* ------------------------------------------------------------------------
UploadInitRequest(wellFormed, subject, did, mimeType, size, sha256, filename) ==
    [wellFormed |-> wellFormed, subject |-> subject, did |-> did,
     mimeType |-> mimeType, size |-> size, sha256 |-> sha256, filename |-> filename]

\* the bodies of POST /v1/media/uploadInit the client of the model sends
UploadInits ==
    { UploadInitRequest(TRUE, Alice, Alice, "image/png", 1, NoSha, ""),
      UploadInitRequest(TRUE, Alice, Alice, "image/png", 2, Sha256(<<1, 2>>), "a.png"),
      UploadInitRequest(TRUE, Alice, Alice, "image/png", 0, NoSha, ""),
      UploadInitRequest(TRUE, Alice, Alice, "image/png", MaxMediaSize + 1, NoSha, ""),
      UploadInitRequest(TRUE, Alice, Alice, "text/plain", 1, NoSha, ""),
      UploadInitRequest(TRUE, Alice, Alice, "text/plain", MaxMediaSize + 1, NoSha, ""),
      UploadInitRequest(TRUE, Alice, Bob, "text/plain", 1, NoSha, ""),
      UploadInitRequest(TRUE, Alice, "", "image/png", MaxMediaSize + 1, NoSha, ""),
      UploadInitRequest(TRUE, Alice, Bob, "image/png", 1, NoSha, ""),
      UploadInitRequest(FALSE, Alice, Alice, "image/png", 1, NoSha, "") }

FinalizeRequest(subject, assetID, sha256) ==
    [subject |-> subject, assetId |-> assetID, sha256 |-> sha256]

MediaResponse(status, code, asset) ==
    [status |-> status, code |-> code, asset |-> asset]

\* n numbers the finalize requests of the client; installed is the asset as
\* its first successful finalize stored it
IdleUpload ==
    [pc |-> "idle",
     in |-> UploadInitRequest(TRUE, Alice, Alice, "image/png", 1, NoSha, ""),
     assetID |-> "", url |-> FallbackUploadURL(""), initResp |-> MediaResponse(0, "", NoAsset),
     put |-> FALSE, content |-> <<>>,
     fin |-> FinalizeRequest(Alice, "", NoSha), asset |-> NoAsset,
     resp |-> MediaResponse(0, "", NoAsset),
     n |-> 1, installed |-> NoAsset]

InitFails(status, code) ==
    up' = [up EXCEPT !.pc = "initFailed", !.initResp = MediaResponse(status, code, NoAsset)]

FinalizeResponds(status, code, asset) ==
    up' = [up EXCEPT !.pc = "done", !.resp = MediaResponse(status, code, asset)]

\* the client sends POST /v1/media/uploadInit
UploadInitSend ==
    /\ up.pc = "idle"
    /\ \E in \in UploadInits : up' = [IdleUpload EXCEPT !.pc = "init", !.in = in]
    /\ UNCHANGED <<cfg, st, auth, pub, backend, now, accounts, records, idempotency, events, req, listVars,
                   s3, assets, objects, mediaEvents>>

\* the media type test left out
MimeTypeUnchecked(mimeType) == TRUE

\* the loop over m.allowedMimeTypes
MimeTypeAllowed(mimeType) == mimeType \in AllowedMimeTypes

\* handleUploadInit: decode, required fields, size limit, media type, DID
\* binding, m.s.GetAccount
UploadInitCheck ==
    /\ up.pc = "init"
    /\ LET in == up.in
       IN  IF ~in.wellFormed \/ in.did = "" \/ in.mimeType = "" \/ in.size <= 0
           THEN InitFails(StatusBadRequest, "CDV_VALIDATION")
           ELSE IF in.size > MaxMediaSize
           THEN InitFails(StatusBadRequest, "CDV_MEDIA_SIZE")
           ELSE IF ~MimeTypeAllowed(in.mimeType)
           THEN InitFails(StatusBadRequest, "CDV_MEDIA_TYPE")
           ELSE IF in.did # in.subject
           THEN InitFails(StatusForbidden, "CDV_DID_MISMATCH")
           ELSE up' = [up EXCEPT !.pc = IF GetAccount(accounts, in.did)
                                        THEN "initAsset" ELSE "initAccount"]
    /\ UNCHANGED <<cfg, st, auth, pub, backend, now, accounts, records, idempotency, events, req, listVars,
                   s3, assets, objects, mediaEvents>>

\* handleUploadInit: m.s.CreateAccount after ErrNotFound
UploadInitAccount ==
    /\ up.pc = "initAccount"
    /\ LET res == CreateAccount(accounts, up.in.did)
       IN  IF res.err # ""
           THEN /\ InitFails(StatusInternalServerError, "CDV_INTERNAL")
                /\ UNCHANGED accounts
           ELSE /\ accounts' = res.accounts
                /\ up' = [up EXCEPT !.pc = "initAsset"]
    /\ UNCHANGED <<cfg, st, auth, pub, backend, now, records, idempotency, events, req, listVars,
                   s3, assets, objects, mediaEvents>>

\* handleUploadInit: the asset is stored under its at:// URI, then the
\* object key and the upload URL are made; the s3:// URI is assigned to the
\* local asset only
UploadInitAsset ==
    /\ up.pc = "initAsset"
    /\ LET in == up.in
           assetID == "asset-1"
           asset == MediaAsset(assetID, in.did, AtMediaURI(in.did, assetID),
                               in.mimeType, in.size, in.sha256, now)
           res == CreateMediaAsset(backend, accounts, assets, asset)
           objectKey == ObjectKey(in.did, assetID, in.filename)
       IN  IF res.err = "conflict"
           THEN /\ InitFails(StatusConflict, "CDV_CONFLICT")
                /\ UNCHANGED assets
           ELSE IF res.err # ""
           THEN /\ InitFails(StatusInternalServerError, "CDV_INTERNAL")
                /\ UNCHANGED assets
           ELSE /\ assets' = res.assets
                /\ up' = [up EXCEPT
                            !.pc = "uploadable",
                            !.assetID = assetID,
                            !.url = IF Configured(s3)
                                    THEN GenerateUploadURL(MediaClient(s3), objectKey)
                                    ELSE FallbackUploadURL(assetID),
                            !.initResp = MediaResponse(StatusOK, "", NoAsset)]
    /\ UNCHANGED <<cfg, st, auth, pub, backend, now, accounts, records, idempotency, events, req, listVars,
                   s3, objects, mediaEvents>>

\* the client PUTs bytes to the presigned URL; the store serves the request
\* when the signature is one it accepts
Upload ==
    /\ up.pc = "uploadable"
    /\ up.url.presigned
    /\ \E content \in Contents :
          IF Served(s3, up.url.client)
          THEN /\ objects' =
                     {o \in objects :
                         ~(o.bucket = up.url.client.bucket /\ o.key = up.url.key)}
                     \cup {[bucket |-> up.url.client.bucket, key |-> up.url.key,
                            content |-> content]}
               /\ up' = [up EXCEPT !.pc = "uploaded", !.put = TRUE, !.content = content]
          ELSE /\ UNCHANGED objects
               /\ up' = [up EXCEPT !.pc = "uploaded"]
    /\ UNCHANGED <<cfg, st, auth, pub, backend, now, accounts, records, idempotency, events, req, listVars,
                   s3, assets, mediaEvents>>

\* the client goes on without uploading
SkipUpload ==
    /\ up.pc = "uploadable"
    /\ up' = [up EXCEPT !.pc = "uploaded"]
    /\ UNCHANGED <<cfg, st, auth, pub, backend, now, accounts, records, idempotency, events, req, listVars,
                   s3, assets, objects, mediaEvents>>

\* the client sends POST /v1/media/finalize
FinalizeSend ==
    /\ up.pc = "uploaded"
    /\ \E subject \in DIDs, assetID \in {up.assetID, "asset-x"},
          sha256 \in {Sha256(c) : c \in Contents} \cup {NoSha} :
          up' = [up EXCEPT !.pc = "finalize",
                    !.fin = FinalizeRequest(subject, assetID, sha256)]
    /\ UNCHANGED <<cfg, st, auth, pub, backend, now, accounts, records, idempotency, events, req, listVars,
                   s3, assets, objects, mediaEvents>>

\* handleFinalize: required fields, m.s.GetMediaAsset, DID binding
FinalizeCheck ==
    /\ up.pc = "finalize"
    /\ LET found == GetMediaAsset(assets, up.fin.assetId)
       IN  IF up.fin.assetId = "" \/ up.fin.sha256 = NoSha
           THEN FinalizeResponds(StatusBadRequest, "CDV_VALIDATION", NoAsset)
           ELSE IF found = {}
           THEN FinalizeResponds(StatusNotFound, "CDV_NOT_FOUND", NoAsset)
           ELSE \E asset \in found :
                   IF asset.did # up.fin.subject
                   THEN FinalizeResponds(StatusForbidden, "CDV_DID_MISMATCH", NoAsset)
                   ELSE up' = [up EXCEPT !.asset = asset,
                                  !.pc = IF Configured(s3) THEN "verify" ELSE "update"]
    /\ UNCHANGED <<cfg, st, auth, pub, backend, now, accounts, records, idempotency, events, req, listVars,
                   s3, assets, objects, mediaEvents>>

\* handleFinalize: m.mediaClient.VerifyObject on the key cut from asset.URI
FinalizeVerify ==
    /\ up.pc = "verify"
    /\ LET objectKey == TrimPrefix(up.asset.uri, s3.bucket)
           v == VerifyObject(s3, MediaClient(s3), objects, objectKey, up.fin.sha256)
       IN  IF v.err # ""
           THEN FinalizeResponds(StatusInternalServerError, "CDV_INTERNAL", NoAsset)
           ELSE IF ~v.valid
           THEN FinalizeResponds(StatusBadRequest, "CDV_MEDIA_CHECKSUM", NoAsset)
           ELSE up' = [up EXCEPT !.asset.size = v.size, !.pc = "update"]
    /\ assets' = IF up'.pc = "update"
                 THEN AssignThrough(backend, assets, up'.asset)
                 ELSE assets
    /\ UNCHANGED <<cfg, st, auth, pub, backend, now, accounts, records, idempotency, events, req, listVars,
                   s3, objects, mediaEvents>>

\* handleFinalize from m.s.UpdateMediaAsset on: the update,
\* m.p.PublishMediaFinalized and the response
FinalizeStoreWith(asset) ==
    LET res == UpdateMediaAsset(assets, asset)
    IN  IF res.err # ""
        THEN /\ FinalizeResponds(StatusInternalServerError, "CDV_INTERNAL", NoAsset)
             /\ UNCHANGED <<assets, mediaEvents, pub>>
        ELSE LET published == PublishMediaFinalized(
                                  pub, Ctx("server.ContextKey", up.n), up.n, asset)
             IN  /\ assets' = res.assets
                 /\ pub' = published.pub
                 /\ mediaEvents' = IF published.sent
                                   THEN Append(mediaEvents, published.envelope)
                                   ELSE mediaEvents
                 /\ up' = [up EXCEPT
                             !.pc = "done",
                             !.resp = MediaResponse(StatusOK, "", asset),
                             !.installed = IF @ = NoAsset THEN asset ELSE @]

\* handleFinalize: asset.Checksum = req.SHA256, m.s.UpdateMediaAsset,
\* m.p.PublishMediaFinalized, response
FinalizeUpdate ==
    /\ up.pc = "update"
    /\ FinalizeStoreWith([up.asset EXCEPT !.checksum = up.fin.sha256])
    /\ UNCHANGED <<cfg, st, auth, backend, now, accounts, records, idempotency, events, req, listVars,
                   s3, objects>>

\* the same in two steps, as other requests see it: the assignment
\* asset.Checksum = req.SHA256 ...
FinalizeAssign ==
    /\ up.pc = "update"
    /\ up' = [up EXCEPT !.asset.checksum = up.fin.sha256, !.pc = "assigned"]
    /\ assets' = AssignThrough(backend, assets, up'.asset)
    /\ UNCHANGED <<cfg, st, auth, pub, backend, now, accounts, records, idempotency, events, req, listVars,
                   s3, objects, mediaEvents>>

\* ... and the call of m.s.UpdateMediaAsset with what follows it
FinalizeStore ==
    /\ up.pc = "assigned"
    /\ FinalizeStoreWith(up.asset)
    /\ UNCHANGED <<cfg, st, auth, backend, now, accounts, records, idempotency, events, req, listVars,
                   s3, objects>>

\* the client, answered, sends a further POST /v1/media/finalize
FinalizeAgain ==
    /\ up.pc = "done"
    /\ up.n < MaxFinalizes
    /\ up' = [up EXCEPT !.pc = "uploaded", !.n = @ + 1]
    /\ UNCHANGED <<cfg, st, auth, pub, backend, now, accounts, records, idempotency, events, req, listVars,
                   s3, assets, objects, mediaEvents>>

\* ------------------------------------------------------------------------
\* Token verification (internal/jwks/client.go) and the middleware
\* (internal/server/mux.go: method, withMiddleware, validateJWT)
\* ------------------------------------------------------------------------
\* 5 * time.Minute, the life of a fetched key set, in minutes
JwksTTL == 5

\* the expected issuer and audience of the configuration
JwtIssuer == "https://identity.example"
JwtAudience == "cdv"

\* a token: the key id of its header, the key its signature was made with,
\* its claims; kind "garbage" is a string that does not parse as a JWT
Token(kind, kid, signedBy, iss, aud, expired, sub) ==
    [kind |-> kind, kid |-> kid, signedBy |-> signedBy, iss |-> iss, aud |-> aud,
     expired |-> expired, sub |-> sub]

NoToken == Token("none", "", "", "", "", FALSE, "")

\* a token the issuer signed with key kid for Alice
IssuedToken(kid) == Token("jwt", kid, kid, JwtIssuer, JwtAudience, FALSE, Alice)

BearerTokens ==
    { IssuedToken("k1"),
      IssuedToken("k2"),
      [IssuedToken("k1") EXCEPT !.signedBy = "forged"],
      [IssuedToken("k1") EXCEPT !.iss = "https://evil.example"],
      [IssuedToken("k1") EXCEPT !.aud = "other"],
      [IssuedToken("k1") EXCEPT !.signedBy = "forged", !.iss = "https://evil.example"],
      [IssuedToken("k1") EXCEPT !.signedBy = "forged", !.aud = "other"],
      [IssuedToken("k1") EXCEPT !.expired = TRUE],
      [IssuedToken("k1") EXCEPT !.sub = ""],
      [IssuedToken("k1") EXCEPT !.kid = ""],
      Token("garbage", "", "", "", "", FALSE, "") }

\* the result of ValidateJWT: the error, as the chain of the words of its
\* text that validateJWT looks for, and the sub claim
Validated(err, sub) == [err |-> err, sub |-> sub]

\* a test mode that parses the token and compares the audience only
TestModeSkipsIssuer(token) ==
    IF token.kind # "jwt" THEN Validated(<<"parse">>, "")
    ELSE IF token.aud # JwtAudience THEN Validated(<<"invalid audience">>, "")
    ELSE Validated(<<>>, token.sub)

\* ValidateJWT in test mode: ParseUnverified, issuer, audience; neither the
\* signature nor the expiry is examined
TestModeValidate(token) ==
    IF token.kind # "jwt" THEN Validated(<<"parse">>, "")
    ELSE IF token.iss # JwtIssuer THEN Validated(<<"invalid issuer">>, "")
    ELSE IF token.aud # JwtAudience THEN Validated(<<"invalid audience">>, "")
    ELSE Validated(<<>>, token.sub)

\* ValidateJWT once getJWKS has returned the key set: getKey, signature and
\* expiry (jwt.ParseWithClaims), issuer, audience
VerifyWithKeys(token, jwks) ==
    IF token.kid \notin jwks THEN Validated(<<"key", "kid">>, "")
    ELSE IF token.signedBy # token.kid THEN Validated(<<"verify", "signature">>, "")
    ELSE IF token.expired THEN Validated(<<"verify", "expired">>, "")
    ELSE IF token.iss # JwtIssuer THEN Validated(<<"invalid issuer">>, "")
    ELSE IF token.aud # JwtAudience THEN Validated(<<"invalid audience">>, "")
    ELSE Validated(<<>>, token.sub)

\* validateJWT: the error code for an error of ValidateJWT
JwtErrorCode(err) ==
    IF Contains(err, "expired") THEN "CDV_JWT_EXPIRED"
    ELSE IF Contains(err, "invalid issuer") THEN "CDV_JWT_INVALID"
    ELSE IF Contains(err, "invalid audience") THEN "CDV_JWT_INVALID"
    ELSE IF Contains(err, "kid") THEN "CDV_JWT_MALFORMED"
    ELSE "CDV_JWT_INVALID"

\* the routes of NewMux: the method each is registered with; the health
\* endpoints are registered without method check and middleware
Paths ==
    {"/v1/repo/record", "/v1/repo/listRecords", "/v1/media/uploadInit",
     "/v1/media/finalize", "/v1/media/asset-1/meta", "/healthz"}
RegisteredMethod(path) ==
    IF path \in {"/v1/repo/listRecords", "/v1/media/asset-1/meta"} THEN "GET"
    ELSE IF path = "/healthz" THEN "" ELSE "POST"

\* a middleware that authenticates by method alone
MediaPrefixIgnored(path) == FALSE

\* strings.HasPrefix(r.URL.Path, "/v1/media/")
UnderMedia(path) ==
    path \in {"/v1/media/uploadInit", "/v1/media/finalize", "/v1/media/asset-1/meta"}

\* an HTTP request: method, path, the scheme of its Authorization header
\* ("" when there is no header) and the token after "Bearer "; correlationId
\* is its X-Correlation-Id header, 0 when it has none; body is the decoded
\* JSON body of a record create
HttpRequestOf(method, path, scheme, token) ==
    [method |-> method, path |-> path, scheme |-> scheme, token |-> token,
     correlationId |-> 0, body |-> BaseReq]

\* one exchange: the request, the response of the middleware (status 0 while
\* there is none), whether the handler was called and with which subject;
\* stale: the verification found no unexpired key set; fetched: it fetched;
\* xcorr: the X-Correlation-Id header of the response, 0 while it has none
IdleExchange ==
    [pc |-> "idle", h |-> HttpRequestOf("", "", "", NoToken), status |-> 0,
     code |-> "", entered |-> FALSE, did |-> "", stale |-> FALSE, fetched |-> FALSE,
     xcorr |-> 0]

\* jwks.NewClient / NewTestClient with an empty cache, and the world around
\* it: the key ids the issuer publishes at the JWKS URL, whether the URL
\* answers 200, the clock in minutes, the exchanges; lock is the holder of
\* the write lock of the cache, fetches counts the fetches begun
NewClient(testMode) ==
    [testMode |-> testMode, jwks |-> {}, loaded |-> FALSE, expiresAt |-> 0, lock |-> 0,
     fetches |-> 0, keys |-> {"k1"}, reachable |-> TRUE, clock |-> 0,
     x |-> [r \in ReqIds |-> IdleExchange]]

\* c.cache.jwks != nil && time.Now().Before(c.cache.expiresAt)
Fresh(a) == a.loaded /\ a.clock < a.expiresAt

\* the middleware answers with an error / calls the handler
Reject(a, r, status, code) ==
    [a EXCEPT !.x[r].pc = "done", !.x[r].status = status, !.x[r].code = code]
Enter(a, r, did) ==
    [a EXCEPT !.x[r].pc = "done", !.x[r].entered = TRUE, !.x[r].did = did]

\* validateJWT after ValidateJWT has returned, and the rest of withMiddleware
Answer(a, r, v) ==
    IF v.err # <<>> THEN Reject(a, r, StatusUnauthorized, JwtErrorCode(v.err))
    ELSE IF v.sub = "" THEN Reject(a, r, StatusUnauthorized, "CDV_JWT_INVALID")
    ELSE Enter(a, r, v.sub)

\* the handler the middleware called: handleCreateRecord begins with the
\* subject of the token; the other handlers are not followed here
HandlerEntry(a, r) ==
    IF a.x[r].entered /\ a.x[r].h.path = "/v1/repo/record"
    THEN [req EXCEPT ![r] = [IdleReq EXCEPT
                               !.pc = "start",
                               !.in = [a.x[r].h.body EXCEPT !.subject = a.x[r].did],
                               !.prior = {q \in ReqIds : req[q].pc = "done"}]]
    ELSE req

\* withMiddleware: the X-Correlation-Id set on the response writer, the
\* header of the request or a new UUID
CorrelationHeader(h, fresh) ==
    IF h.correlationId = 0 THEN fresh ELSE h.correlationId

\* a request arrives: ServeMux, method, withMiddleware and validateJWT up to
\* the first lock of getJWKS
HttpRequest(r, requests) ==
    /\ auth.x[r].pc = "idle"
    /\ req[r].pc = "idle"
    /\ \E h \in requests :
          LET a == [auth EXCEPT
                       !.x[r].h = h,
                       !.x[r].xcorr =
                           IF RegisteredMethod(h.path) = h.method
                           THEN CorrelationHeader(h, r) ELSE 0]
              b == IF RegisteredMethod(h.path) = "" THEN Enter(a, r, "")
                   ELSE IF h.method # RegisteredMethod(h.path)
                   THEN Reject(a, r, StatusBadRequest, "CDV_BAD_REQUEST")
                   ELSE IF ~(h.method = "POST" \/ UnderMedia(h.path))
                   THEN Enter(a, r, "")
                   ELSE IF h.scheme # "Bearer"
                   THEN Reject(a, r, StatusUnauthorized, "CDV_AUTHN")
                   ELSE IF a.testMode THEN Answer(a, r, TestModeValidate(h.token))
                   ELSE IF h.token.kind # "jwt"
                   THEN Answer(a, r, Validated(<<"parse">>, ""))
                   ELSE IF h.token.kid = ""
                   THEN Answer(a, r, Validated(<<"kid">>, ""))
                   ELSE [a EXCEPT !.x[r].pc = "rlock"]
          IN  /\ auth' = b
              /\ req' = HandlerEntry(b, r)
    /\ UNCHANGED <<cfg, st, pub, backend, now, accounts, records, idempotency, events, listVars,
                   mediaVars>>

\* getJWKS: the read lock and the first look at the cache
RLockCheck(r) ==
    /\ auth.x[r].pc = "rlock"
    /\ auth.lock = 0
    /\ LET b == IF Fresh(auth)
                THEN Answer(auth, r, VerifyWithKeys(auth.x[r].h.token, auth.jwks))
                ELSE [auth EXCEPT !.x[r].pc = "wantLock", !.x[r].stale = TRUE]
       IN  /\ auth' = b
           /\ req' = HandlerEntry(b, r)
    /\ UNCHANGED <<cfg, st, pub, backend, now, accounts, records, idempotency, events, listVars,
                   mediaVars>>

\* a cache whose write lock excludes nobody
LockIgnored(a) == TRUE

\* the write lock is free
LockFree(a) == a.lock = 0

\* getJWKS: the write lock, the second look at the cache, the fetch begun
\* under the lock
AcquireLock(r) ==
    /\ auth.x[r].pc = "wantLock"
    /\ LockFree(auth)
    /\ LET b == IF Fresh(auth)
                THEN Answer(auth, r, VerifyWithKeys(auth.x[r].h.token, auth.jwks))
                ELSE [auth EXCEPT !.x[r].pc = "fetching", !.x[r].fetched = TRUE,
                                  !.lock = r, !.fetches = @ + 1]
       IN  /\ auth' = b
           /\ req' = HandlerEntry(b, r)
    /\ UNCHANGED <<cfg, st, pub, backend, now, accounts, records, idempotency, events, listVars,
                   mediaVars>>

\* fetchJWKS returns: the key set is cached for JwksTTL, or the error is
\* returned and the cache is left as it was; the lock is released
FetchDone(r) ==
    /\ auth.x[r].pc = "fetching"
    /\ LET b == IF auth.reachable
                THEN Answer([auth EXCEPT !.jwks = auth.keys, !.loaded = TRUE,
                                         !.expiresAt = auth.clock + JwksTTL,
                                         !.lock = 0],
                            r, VerifyWithKeys(auth.x[r].h.token, auth.keys))
                ELSE Answer([auth EXCEPT !.lock = 0], r, Validated(<<"key">>, ""))
       IN  /\ auth' = b
           /\ req' = HandlerEntry(b, r)
    /\ UNCHANGED <<cfg, st, pub, backend, now, accounts, records, idempotency, events, listVars,
                   mediaVars>>

\* the issuer starts signing with a second key and publishes it
IssuerAddsKey ==
    /\ auth.keys = {"k1"}
    /\ auth' = [auth EXCEPT !.keys = {"k1", "k2"}]
    /\ UNCHANGED <<cfg, st, pub, backend, now, accounts, records, idempotency, events, req,
                   listVars, mediaVars>>

\* the JWKS URL stops answering 200, or answers again
EndpointFlip ==
    /\ auth' = [auth EXCEPT !.reachable = ~@]
    /\ UNCHANGED <<cfg, st, pub, backend, now, accounts, records, idempotency, events, req,
                   listVars, mediaVars>>

\* a minute passes; a verification takes less
TickJwks ==
    /\ auth.clock < MaxMinute
    /\ \A r \in ReqIds : auth.x[r].pc \in {"idle", "done"}
    /\ auth' = [auth EXCEPT !.clock = @ + 1]
    /\ UNCHANGED <<cfg, st, pub, backend, now, accounts, records, idempotency, events, req,
                   listVars, mediaVars>>

\* ------------------------------------------------------------------------
\* The Store interface (internal/storage): NewMemory and NewPostgres driven
\* with the same calls
\* ------------------------------------------------------------------------
\* one store: accounts, records in insertion order, idempotency entries
EmptyStore == [accounts |-> {}, records |-> <<>>, idempotency |-> {}]

\* what a call returned from either store
StoreResult(op, memory, postgres) == [op |-> op, memory |-> memory, postgres |-> postgres]

\* a caller of StoreIdempotentResponse between the two statements of the
\* relational store
IdleCall == [pc |-> "idle", requestHash |-> NoHash, conflict |-> FALSE]

NewStores ==
    [memory |-> EmptyStore, postgres |-> EmptyStore, clock |-> 0,
     call |-> [c \in ReqIds |-> IdleCall],
     last |-> StoreResult("", "", "")]

\* the records handed to CreateRecord: one per key, one with the key of the
\* first under another uri, one of another account
StoreRecord(id, did, collection, rkey, uri, indexedAt) ==
    [NoRecord EXCEPT !.id = id, !.did = did, !.collection = collection, !.rkey = rkey,
                     !.uri = uri, !.cid = id, !.indexedAt = indexedAt,
                     !.schemaVersion = "1.0.0"]

StoreRecords ==
    { StoreRecord(1, Alice, Post, RKey(0, 0), URI(Alice, Post, RKey(0, 0)), 0),
      StoreRecord(2, Alice, Post, RKey(0, 0), URI(Alice, Post, RKey(0, 1)), 0),
      StoreRecord(3, Alice, Post, RKey(1, 0), URI(Alice, Post, RKey(1, 0)), 1),
      StoreRecord(4, Bob, Profile, RKey(1, 0), URI(Bob, Profile, RKey(1, 0)), 1) }

\* CreateAccount on both stores
StoreCreateAccount(did) ==
    /\ LET m == CreateAccount(st.memory.accounts, did)
           p == CreateAccount(st.postgres.accounts, did)
       IN  st' = [st EXCEPT !.memory.accounts = m.accounts,
                            !.postgres.accounts = p.accounts,
                            !.last = StoreResult("CreateAccount", m.err, p.err)]
    /\ UNCHANGED <<cfg, auth, pub, backend, now, accounts, records, idempotency, events, req,
                   listVars, mediaVars>>

\* CreateRecord on both stores
StoreCreateRecord(rec) ==
    /\ LET m == CreateRecord("memory", st.memory.accounts, st.memory.records, rec)
           p == CreateRecord("postgres", st.postgres.accounts, st.postgres.records, rec)
       IN  st' = [st EXCEPT !.memory.records = m.records,
                            !.postgres.records = p.records,
                            !.last = StoreResult("CreateRecord", m.err, p.err)]
    /\ UNCHANGED <<cfg, auth, pub, backend, now, accounts, records, idempotency, events, req,
                   listVars, mediaVars>>

\* the queries handed to ListRecords: no filter, a collection, since, until
StoreQueries ==
    { ListRecordsQuery(Alice, "", 1, NoCursor, ZeroTime, ZeroTime),
      ListRecordsQuery(Alice, Post, 0, NoCursor, ZeroTime, ZeroTime),
      ListRecordsQuery(Alice, "", 0, NoCursor, 1, ZeroTime),
      ListRecordsQuery(Alice, "", 0, NoCursor, ZeroTime, 0) }

\* ListRecords on both stores: the results each may return
StoreListRecords(q) ==
    /\ st' = [st EXCEPT !.last =
                 StoreResult("ListRecords",
                             ListRecords("memory", st.memory.records, q),
                             ListRecords("postgres", st.postgres.records, q))]
    /\ UNCHANGED <<cfg, auth, pub, backend, now, accounts, records, idempotency, events, req,
                   listVars, mediaVars>>

\* the request hashes StoreIdempotentResponse is called with, all under the
\* key hash of "k1"
StoreHashes == {RequestHash(BaseReq), RequestHash([BaseReq EXCEPT !.record = RecB])}

\* postgres.StoreIdempotentResponse, first statement: SELECT request_hash
\* ... WHERE key_hash = $1 AND request_hash != $2
StoreIdemProbe(c, requestHash) ==
    /\ st.call[c].pc = "idle"
    /\ st' = [st EXCEPT !.call[c] =
                 [pc |-> "probed", requestHash |-> requestHash,
                  conflict |-> \E x \in st.postgres.idempotency :
                                  x.keyHash = KeyHash("k1") /\ x.requestHash # requestHash]]
    /\ UNCHANGED <<cfg, auth, pub, backend, now, accounts, records, idempotency, events, req,
                   listVars, mediaVars>>

\* postgres.StoreIdempotentResponse, second statement: INSERT ... ON CONFLICT
\* (key_hash, request_hash) DO UPDATE
PostgresUpsert(idem, keyHash, requestHash, body, status, expiresAt) ==
    {x \in idem : ~(x.keyHash = keyHash /\ x.requestHash = requestHash)}
    \cup {IdemRow(keyHash, requestHash, body, status, expiresAt)}

\* StoreIdempotentResponse returns: ErrConflict after a probe that found a
\* row, else the upsert; the in-memory store writes under its mutex
StoreIdemWrite(c) ==
    /\ st.call[c].pc = "probed"
    /\ LET expiresAt == st.clock + IdemTTL
           m == MemoryStoreIdempotentResponse(st.memory.idempotency, KeyHash("k1"),
                                              NoBody, StatusOK, expiresAt)
       IN  st' = [st EXCEPT
                     !.call[c] = IdleCall,
                     !.memory.idempotency = m.idempotency,
                     !.postgres.idempotency =
                         IF st.call[c].conflict THEN @
                         ELSE PostgresUpsert(@, KeyHash("k1"), st.call[c].requestHash,
                                             NoBody, StatusOK, expiresAt),
                     !.last = StoreResult("StoreIdempotentResponse", m.err,
                                          IF st.call[c].conflict THEN "conflict" ELSE "")]
    /\ UNCHANGED <<cfg, auth, pub, backend, now, accounts, records, idempotency, events, req,
                   listVars, mediaVars>>

\* GetIdempotentResponse on both stores: hit or ErrNotFound
StoreGetIdempotent ==
    /\ LET hit(be, idem) == IF IdempotentHits(be, idem, KeyHash("k1"), st.clock) # {}
                            THEN "" ELSE "not found"
       IN  st' = [st EXCEPT
                     !.memory.idempotency =
                         IdempotentAfterGet("memory", @, KeyHash("k1"), st.clock),
                     !.last = StoreResult("GetIdempotentResponse",
                                          hit("memory", st.memory.idempotency),
                                          hit("postgres", st.postgres.idempotency))]
    /\ UNCHANGED <<cfg, auth, pub, backend, now, accounts, records, idempotency, events, req,
                   listVars, mediaVars>>

\* time passes
StoreTick ==
    /\ st.clock < MaxNow
    /\ st' = [st EXCEPT !.clock = @ + 1]
    /\ UNCHANGED <<cfg, auth, pub, backend, now, accounts, records, idempotency, events, req,
                   listVars, mediaVars>>

vars ==
    <<backend, now, accounts, records, idempotency, events, req, list,
      s3, assets, objects, mediaEvents, up, pub, auth, st, cfg>>

Init ==
    /\ backend \in Backends
    /\ now = 0
    /\ accounts = {}
    /\ records = <<>>
    /\ idempotency = {}
    /\ events = <<>>
    /\ req = [r \in ReqIds |-> IdleReq]
    /\ list = IdleList
    /\ s3 = NoS3
    /\ assets = {}
    /\ objects = {}
    /\ mediaEvents = <<>>
    /\ up = IdleUpload
    /\ pub = NatsPub("correlationId", TRUE)
    /\ auth = NewClient(FALSE)
    /\ st = NewStores
    /\ cfg = DefaultConfig

Next ==
    \/ \E r \in ReqIds : Arrive(r)
    \/ \E r \in ReqIds : Begin(r)
    \/ \E r \in ReqIds : GetAccountStep(r)
    \/ \E r \in ReqIds : CreateAccountStep(r)
    \/ \E r \in ReqIds : CreateRecordStep(r)
    \/ \E r \in ReqIds : PublishStep(r)
    \/ \E r \in ReqIds : StoreIdemStep(r)
    \/ Tick

Spec == Init /\ [][Next]_vars

\* a client that sends one request at a time and comes back with a key only
\* after every entry of the idempotency table has expired
SendAfterExpiry(r) ==
    /\ \A q \in ReqIds : req[q].pc \in {"idle", "done"}
    /\ \A x \in idempotency : now > x.expiresAt
    /\ Send(r, Inputs)

NextExpiry ==
    \/ \E r \in ReqIds : SendAfterExpiry(r)
    \/ \E r \in ReqIds : Begin(r)
    \/ \E r \in ReqIds : GetAccountStep(r)
    \/ \E r \in ReqIds : CreateAccountStep(r)
    \/ \E r \in ReqIds : CreateRecordStep(r)
    \/ \E r \in ReqIds : PublishStep(r)
    \/ \E r \in ReqIds : StoreIdemStep(r)
    \/ Tick

SpecExpiry == Init /\ [][NextExpiry]_vars

\* the write path with a client paging through listRecords; the clock stands
\* still for the length of the session
NextList ==
    \/ \E r \in ReqIds : Send(r, ListInputs)
    \/ \E r \in ReqIds : Begin(r)
    \/ \E r \in ReqIds : GetAccountStep(r)
    \/ \E r \in ReqIds : CreateAccountStep(r)
    \/ \E r \in ReqIds : CreateRecordStep(r)
    \/ \E r \in ReqIds : PublishStep(r)
    \/ \E r \in ReqIds : StoreIdemStep(r)
    \/ ListStart
    \/ ListPage

SpecList == Init /\ [][NextList]_vars

\* records are written, then a client follows the cursors for as long as it
\* is given one
PagingInputs ==
    { BaseReq,
      [BaseReq EXCEPT !.hasCreatedAt = TRUE, !.createdAt = 1],
      [BaseReq EXCEPT !.collection = Profile, !.record = RecProfile,
                      !.hasCreatedAt = TRUE] }

\* the queries of a client that pages with a limit, with or without a
\* collection filter
PagingQueries ==
    { Params(Alice, "", Limit(1), NoCursor, ZeroTime, ZeroTime),
      Params(Alice, Post, Limit(1), NoCursor, ZeroTime, ZeroTime),
      Params(Alice, Post, Limit(2), NoCursor, ZeroTime, ZeroTime),
      Params(Alice, Profile, Limit(101), NoCursor, ZeroTime, ZeroTime) }

\* the session begins when every write has been answered
ListStartFrozen ==
    /\ \A r \in ReqIds : req[r].pc = "done"
    /\ ListStartWith(PagingQueries)

NextPaging ==
    \/ \E r \in ReqIds : Send(r, PagingInputs)
    \/ \E r \in ReqIds : Begin(r)
    \/ \E r \in ReqIds : GetAccountStep(r)
    \/ \E r \in ReqIds : CreateAccountStep(r)
    \/ \E r \in ReqIds : CreateRecordStep(r)
    \/ \E r \in ReqIds : PublishStep(r)
    \/ ListStartFrozen
    \/ ListFollow

SpecPaging == Init /\ [][NextPaging]_vars /\ WF_vars(ListFollow)

\* the media two-phase commit, for every object-store configuration
InitMedia ==
    /\ backend \in Backends
    /\ now = 0
    /\ accounts = {}
    /\ records = <<>>
    /\ idempotency = {}
    /\ events = <<>>
    /\ req = [r \in ReqIds |-> IdleReq]
    /\ list = IdleList
    /\ s3 \in S3Environments
    /\ assets = {}
    /\ objects = {}
    /\ mediaEvents = <<>>
    /\ up = IdleUpload
    /\ pub = NatsPub("correlationId", TRUE)
    /\ auth = NewClient(FALSE)
    /\ st = NewStores
    /\ cfg = DefaultConfig

NextMedia ==
    \/ UploadInitSend
    \/ UploadInitCheck
    \/ UploadInitAccount
    \/ UploadInitAsset
    \/ Upload
    \/ SkipUpload
    \/ FinalizeSend
    \/ FinalizeCheck
    \/ FinalizeVerify
    \/ FinalizeUpdate

SpecMedia == InitMedia /\ [][NextMedia]_vars

\* the media path with a client that finalizes its asset more than once
NextRefinalize ==
    \/ NextMedia
    \/ FinalizeAgain

SpecRefinalize == InitMedia /\ [][NextRefinalize]_vars

\* the media path with handleFinalize taken assignment by assignment
NextAlias ==
    \/ UploadInitSend
    \/ UploadInitCheck
    \/ UploadInitAccount
    \/ UploadInitAsset
    \/ Upload
    \/ SkipUpload
    \/ FinalizeSend
    \/ FinalizeCheck
    \/ FinalizeVerify
    \/ FinalizeAssign
    \/ FinalizeStore
    \/ FinalizeAgain

SpecAlias == InitMedia /\ [][NextAlias]_vars

\* the broker becomes unreachable, or reachable again
BrokerFlip ==
    /\ pub.connected
    /\ pub' = [pub EXCEPT !.reachable = ~@]
    /\ UNCHANGED <<cfg, st, auth, backend, now, accounts, records, idempotency, events, req, listVars,
                   mediaVars>>

\* the bodies sent where the publisher is examined: one idempotency key with
\* two different records
PubInputs ==
    { [BaseReq EXCEPT !.idempotencyKey = "k1"],
      [BaseReq EXCEPT !.idempotencyKey = "k1", !.record = RecB] }

\* both write paths with every publisher: either build, connected or noop,
\* the broker reachable or not; no object store
InitPub ==
    /\ backend \in Backends
    /\ now = 0
    /\ accounts = {}
    /\ records = <<>>
    /\ idempotency = {}
    /\ events = <<>>
    /\ req = [r \in ReqIds |-> IdleReq]
    /\ list = IdleList
    /\ s3 = NoS3
    /\ assets = {}
    /\ objects = {}
    /\ mediaEvents = <<>>
    /\ up = IdleUpload
    /\ pub \in {NatsPub(b, c) : b \in Builds, c \in BOOLEAN}
    /\ auth = NewClient(FALSE)
    /\ st = NewStores
    /\ cfg = DefaultConfig

NextPub ==
    \/ \E r \in ReqIds : Send(r, PubInputs)
    \/ \E r \in ReqIds : Begin(r)
    \/ \E r \in ReqIds : GetAccountStep(r)
    \/ \E r \in ReqIds : CreateAccountStep(r)
    \/ \E r \in ReqIds : CreateRecordStep(r)
    \/ \E r \in ReqIds : PublishStep(r)
    \/ \E r \in ReqIds : StoreIdemStep(r)
    \/ UploadInitSend
    \/ UploadInitCheck
    \/ UploadInitAccount
    \/ UploadInitAsset
    \/ SkipUpload
    \/ FinalizeSend
    \/ FinalizeCheck
    \/ FinalizeUpdate
    \/ BrokerFlip

SpecPub == InitPub /\ [][NextPub]_vars

\* callers of the publisher: the contexts they pass hold a correlation id
\* under the key type of package event, or under that of package server as
\* the handlers' contexts do (withMiddleware)
Ctxs ==
    {Ctx(k, c) : k \in {"event.ContextKey", "server.ContextKey"}, c \in {11, 12}}

\* PublishRecordCreated is called; the fresh UUID is a number no call had
CallPublishRecord ==
    /\ pub.n < MaxCalls
    /\ \E ctx \in Ctxs, r \in ReqIds :
          LET rec == NewRecord(r, BaseReq, "1.0.0", 0, 0)
              res == PublishRecordCreated(pub, ctx, 100 + pub.n, Post, rec)
          IN  /\ pub' = res.pub
              /\ events' = IF res.sent THEN Append(events, res.envelope) ELSE events
    /\ UNCHANGED <<cfg, st, auth, backend, now, accounts, records, idempotency, req, listVars,
                   s3, assets, objects, mediaEvents, up>>

\* PublishMediaFinalized is called
CallPublishMedia ==
    /\ pub.n < MaxCalls
    /\ \E ctx \in Ctxs, assetID \in {"asset-1", "asset-2"} :
          LET asset == MediaAsset(assetID, Alice, AtMediaURI(Alice, assetID),
                                  "image/png", 1, Sha256(<<1>>), 0)
              res == PublishMediaFinalized(pub, ctx, 100 + pub.n, asset)
          IN  /\ pub' = res.pub
              /\ mediaEvents' = IF res.sent THEN Append(mediaEvents, res.envelope)
                                ELSE mediaEvents
    /\ UNCHANGED <<cfg, st, auth, backend, now, accounts, records, idempotency, events, req, listVars,
                   s3, assets, objects, up>>

\* a minute passes
TickMinute ==
    /\ pub.clock < MaxMinute
    /\ pub' = [pub EXCEPT !.clock = @ + 1]
    /\ UNCHANGED <<cfg, st, auth, backend, now, accounts, records, idempotency, events, req, listVars,
                   mediaVars>>

\* a goroutine enters PublishRecordCreated or PublishMediaFinalized of the
\* connected publisher: the correlation id is taken from the context or
\* minted, and with it the key of the dedup map
PublishEnter(c) ==
    /\ pub.connected
    /\ pub.calls[c].pc = "idle"
    /\ \E ctx \in Ctxs, stream \in {"RA_RECORDS", "RA_MEDIA"} :
          LET corr == EnvelopeCorrelationID(pub, ctx, 100 + c)
              key == IF pub.build = "correlationId" THEN corr
                     ELSE IF stream = "RA_RECORDS"
                     THEN NewRecord(c, BaseReq, "1.0.0", 0, 0).id
                     ELSE "asset-1"
          IN  pub' = [pub EXCEPT !.calls[c] =
                         [IdlePublish EXCEPT !.pc = "probe", !.ctx = ctx,
                                             !.stream = stream, !.key = key]]
    /\ UNCHANGED <<cfg, st, auth, backend, now, accounts, records, idempotency, events, req, listVars,
                   mediaVars>>

\* p.shouldDedup under the read lock, which is released on return
PublishProbe(c) ==
    /\ pub.calls[c].pc = "probe"
    /\ LET call == pub.calls[c]
           dedupMap == IF call.stream = "RA_RECORDS" THEN pub.recordDedup
                       ELSE pub.mediaDedup
       IN  pub' = IF shouldDedup(pub, call.key, dedupMap)
                  THEN [pub EXCEPT !.calls[c].pc = "done", !.calls[c].result = "dropped"]
                  ELSE [pub EXCEPT !.calls[c].pc = "publish"]
    /\ UNCHANGED <<cfg, st, auth, backend, now, accounts, records, idempotency, events, req, listVars,
                   mediaVars>>

\* p.js.Publish, no lock held: an error is returned to the caller
PublishSend(c) ==
    /\ pub.calls[c].pc = "publish"
    /\ LET call == pub.calls[c]
           corr == EnvelopeCorrelationID(pub, call.ctx, 100 + c)
           rec == NewRecord(c, BaseReq, "1.0.0", 0, 0)
           asset == MediaAsset("asset-1", Alice, AtMediaURI(Alice, "asset-1"),
                               "image/png", 1, Sha256(<<1>>), 0)
           stream == JsPublish(pub, IF call.stream = "RA_RECORDS"
                                    THEN RecordsSubject(Post) ELSE MediaSubject)
           after == IF JsPublishError(stream)
                    THEN [pub EXCEPT !.calls[c].pc = "done",
                                     !.calls[c].result = "error",
                                     !.calls[c].sentAt = pub.clock]
                    ELSE [pub EXCEPT !.calls[c].pc = "update",
                                     !.calls[c].sentAt = pub.clock]
       IN  IF call.stream = "RA_RECORDS"
           THEN LET envelope == RecordCreatedEnvelope(Post, rec, corr)
                IN  /\ events' = Append(events, envelope)
                    /\ pub' = [after EXCEPT !.RA_RECORDS =
                                  IF stream = "RA_RECORDS" THEN Append(@, envelope) ELSE @]
                    /\ UNCHANGED mediaEvents
           ELSE LET envelope == MediaFinalizedEnvelope(asset, corr)
                IN  /\ mediaEvents' = Append(mediaEvents, envelope)
                    /\ pub' = [after EXCEPT !.RA_MEDIA =
                                  IF stream = "RA_MEDIA" THEN Append(@, envelope) ELSE @]
                    /\ UNCHANGED events
    /\ UNCHANGED <<cfg, st, auth, backend, now, accounts, records, idempotency, req, listVars,
                   s3, assets, objects, up>>

\* p.updateDedup under the exclusive lock, then return nil
PublishUpdate(c) ==
    /\ pub.calls[c].pc = "update"
    /\ LET call == pub.calls[c]
           done == [pub EXCEPT !.calls[c].pc = "done", !.calls[c].result = "sent"]
       IN  pub' = IF call.stream = "RA_RECORDS"
                  THEN [done EXCEPT !.recordDedup = updateDedup(pub, call.key, @)]
                  ELSE [done EXCEPT !.mediaDedup = updateDedup(pub, call.key, @)]
    /\ UNCHANGED <<cfg, st, auth, backend, now, accounts, records, idempotency, events, req, listVars,
                   mediaVars>>

\* the publisher alone, called over the minutes
NextDedup ==
    \/ CallPublishRecord
    \/ CallPublishMedia
    \/ TickMinute
    \/ BrokerFlip

SpecDedup == InitPub /\ [][NextDedup]_vars

\* goroutines inside PublishRecordCreated at the same time
NextRace ==
    \/ \E c \in ReqIds : PublishEnter(c)
    \/ \E c \in ReqIds : PublishProbe(c)
    \/ \E c \in ReqIds : PublishSend(c)
    \/ \E c \in ReqIds : PublishUpdate(c)
    \/ TickMinute
    \/ BrokerFlip

SpecRace == InitPub /\ [][NextRace]_vars

\* the requests sent to the verifier alone: POST /v1/repo/record with
\* every token
JwksRequests ==
    {HttpRequestOf("POST", "/v1/repo/record", "Bearer", t) : t \in BearerTokens}

\* the requests sent to the routes: both methods on every path, without
\* header, with another scheme, with tokens
RouteRequests ==
    {HttpRequestOf(m, p, "", NoToken) : m \in {"GET", "POST"}, p \in Paths}
    \cup {HttpRequestOf(m, p, "Basic", NoToken) : m \in {"GET", "POST"}, p \in Paths}
    \cup {HttpRequestOf(m, p, "Bearer", t) :
             m \in {"GET", "POST"}, p \in Paths,
             t \in { IssuedToken("k1"),
                     [IssuedToken("k1") EXCEPT !.signedBy = "forged"],
                     [IssuedToken("k1") EXCEPT !.iss = "https://evil.example"],
                     [IssuedToken("k1") EXCEPT !.signedBy = "forged", !.aud = "other"],
                     [IssuedToken("k1") EXCEPT !.sub = ""] }}

\* either client, empty stores
InitAuth ==
    /\ backend \in Backends
    /\ now = 0
    /\ accounts = {}
    /\ records = <<>>
    /\ idempotency = {}
    /\ events = <<>>
    /\ req = [r \in ReqIds |-> IdleReq]
    /\ list = IdleList
    /\ s3 = NoS3
    /\ assets = {}
    /\ objects = {}
    /\ mediaEvents = <<>>
    /\ up = IdleUpload
    /\ pub = NatsPub("correlationId", TRUE)
    /\ auth \in {NewClient(t) : t \in BOOLEAN}
    /\ st = NewStores
    /\ cfg = DefaultConfig

\* verifications over time, with the issuer rotating keys and the JWKS URL
\* failing
NextJwks ==
    \/ \E r \in ReqIds : HttpRequest(r, JwksRequests)
    \/ \E r \in ReqIds : RLockCheck(r)
    \/ \E r \in ReqIds : AcquireLock(r)
    \/ \E r \in ReqIds : FetchDone(r)
    \/ IssuerAddsKey
    \/ EndpointFlip
    \/ TickJwks

SpecJwks == InitAuth /\ [][NextJwks]_vars

\* the routes behind the middleware, with handleCreateRecord
NextAuth ==
    \/ \E r \in ReqIds : HttpRequest(r, RouteRequests)
    \/ \E r \in ReqIds : RLockCheck(r)
    \/ \E r \in ReqIds : AcquireLock(r)
    \/ \E r \in ReqIds : FetchDone(r)
    \/ \E r \in ReqIds : Begin(r)
    \/ \E r \in ReqIds : GetAccountStep(r)
    \/ \E r \in ReqIds : CreateAccountStep(r)
    \/ \E r \in ReqIds : CreateRecordStep(r)
    \/ \E r \in ReqIds : PublishStep(r)

SpecAuth == InitAuth /\ [][NextAuth]_vars

\* record creates and listings with and without token, with and without
\* X-Correlation-Id header, with their registered method and with the other
CorrRequests ==
    {[HttpRequestOf(m, p, sch, IssuedToken("k1")) EXCEPT
         !.correlationId = c, !.body = [BaseReq EXCEPT !.idempotencyKey = "k1"]] :
        m \in {"GET", "POST"}, p \in {"/v1/repo/record", "/v1/repo/listRecords"},
        sch \in {"", "Bearer"}, c \in {0, 11}}

\* the record routes behind the middleware, with the whole of
\* handleCreateRecord
NextCorr ==
    \/ \E r \in ReqIds : HttpRequest(r, CorrRequests)
    \/ \E r \in ReqIds : RLockCheck(r)
    \/ \E r \in ReqIds : AcquireLock(r)
    \/ \E r \in ReqIds : FetchDone(r)
    \/ \E r \in ReqIds : Begin(r)
    \/ \E r \in ReqIds : GetAccountStep(r)
    \/ \E r \in ReqIds : CreateAccountStep(r)
    \/ \E r \in ReqIds : CreateRecordStep(r)
    \/ \E r \in ReqIds : PublishStep(r)
    \/ \E r \in ReqIds : StoreIdemStep(r)

SpecCorr == InitAuth /\ [][NextCorr]_vars

\* the service idle, both stores empty
InitStore == Init /\ backend = "postgres"

\* calls on the accounts and records of the Store interface, in any order
NextStore ==
    \/ \E did \in DIDs : StoreCreateAccount(did)
    \/ \E rec \in StoreRecords : StoreCreateRecord(rec)
    \/ \E q \in StoreQueries : StoreListRecords(q)

SpecStore == InitStore /\ [][NextStore]_vars

\* two callers of StoreIdempotentResponse and a reader, over time
NextIdem ==
    \/ \E c \in ReqIds, h \in StoreHashes : StoreIdemProbe(c, h)
    \/ \E c \in ReqIds : StoreIdemWrite(c)
    \/ StoreGetIdempotent
    \/ StoreTick

SpecIdem == InitStore /\ [][NextIdem]_vars

\* the write path in front of either Resolver: what the index of the specs
\* repository may hold for the post schema, and both settings of
\* CDV_REJECT_DEPRECATED_SCHEMAS
SchemaIndexes ==
    { NoIndex,
      <<SchemaInfo("ra.social.post", <<"1.0.0">>, "1.0.0", "stable", FALSE, FALSE)>>,
      <<SchemaInfo("ra.social.post", <<"1.0.0">>, "1.0.0", "deprecated", TRUE, FALSE)>>,
      <<SchemaInfo("ra.social.post", <<"0.9.0", "1.1.0">>, "", "draft", FALSE, TRUE)>>,
      <<SchemaInfo("ra.social.post", <<"0.9.0">>, "", "draft", FALSE, FALSE)>>,
      <<SchemaInfo("ra.social.post", <<>>, "", "draft", FALSE, FALSE)>>,
      <<SchemaInfo("ra.social.profile", <<"1.0.0">>, "1.0.0", "stable", FALSE, FALSE),
        SchemaInfo("ra.social.post", <<"1.0.0">>, "1.0.0", "deprecated", TRUE, FALSE),
        SchemaInfo("ra.social.post", <<"2.0.0">>, "2.0.0", "stable", FALSE, FALSE)>> }

Configs ==
    {Config("table", NoIndex, reject) : reject \in BOOLEAN}
        \cup {Config("index", index, reject) :
                  index \in SchemaIndexes, reject \in BOOLEAN}

SchemaInputs ==
    { BaseReq,
      [BaseReq EXCEPT !.idempotencyKey = "k1"],
      [BaseReq EXCEPT !.record = RecMissing],
      [BaseReq EXCEPT !.collection = Profile, !.record = RecProfile,
                      !.hasCreatedAt = TRUE] }

InitSchema ==
    /\ backend \in Backends
    /\ now = 0
    /\ accounts = {}
    /\ records = <<>>
    /\ idempotency = {}
    /\ events = <<>>
    /\ req = [r \in ReqIds |-> IdleReq]
    /\ list = IdleList
    /\ s3 = NoS3
    /\ assets = {}
    /\ objects = {}
    /\ mediaEvents = <<>>
    /\ up = IdleUpload
    /\ pub = NatsPub("correlationId", TRUE)
    /\ auth = NewClient(FALSE)
    /\ st = NewStores
    /\ cfg \in Configs

NextSchema ==
    \/ \E r \in ReqIds : Send(r, SchemaInputs)
    \/ \E r \in ReqIds : Begin(r)
    \/ \E r \in ReqIds : GetAccountStep(r)
    \/ \E r \in ReqIds : CreateAccountStep(r)
    \/ \E r \in ReqIds : CreateRecordStep(r)
    \/ \E r \in ReqIds : PublishStep(r)
    \/ \E r \in ReqIds : StoreIdemStep(r)

SpecSchema == InitSchema /\ [][NextSchema]_vars

\* ------------------------------------------------------------------------
\* Properties of the record write path
\* ------------------------------------------------------------------------
Done(r) == req[r].pc = "done"

\* the records and events request r left behind
RecordsOf(rs) == {i \in 1..Len(records) : records[i].id \in rs}
EventsOf(rs) == {i \in 1..Len(events) : events[i].correlationId \in rs}

\* a request that passes decoding, the required-field check, DID binding
\* and schema validation
Acceptable(in) ==
    /\ in.wellFormed /\ in.collection # "" /\ in.did # "" /\ in.hasRecord
    /\ in.did = in.subject
    /\ in.collection \in SupportedCollections
    /\ SchemaAccepts(in.collection, in.record)

\* r2 was sent after r1 had been answered
After(r1, r2) == Done(r1) /\ Done(r2) /\ r1 \in req[r2].prior

\* C1: two POSTs sent one after the other within the life of the entry, with
\* the same idempotency key and identical bodies, the first answered 200:
\* the second is answered 200 with a byte-identical body, one record is
\* persisted and one record-created event is published.
C1_IdempotentReplayIdentical ==
    \A r1, r2 \in ReqIds :
        ( /\ After(r1, r2)
          /\ now < IdemTTL
          /\ req[r1].in = req[r2].in
          /\ req[r1].in.idempotencyKey # ""
          /\ req[r1].resp.status = StatusOK )
        => /\ req[r2].resp.status = StatusOK
           /\ req[r2].resp.body = req[r1].resp.body
           /\ Cardinality(RecordsOf({r1, r2})) = 1
           /\ Cardinality(EventsOf({r1, r2})) = 1

\* C2: two POSTs sent one after the other within the life of the entry, with
\* the same idempotency key and differing (each acceptable) bodies: the
\* first is answered 200 and the second 409 CONFLICT.
C2_IdempotencyConflict ==
    \A r1, r2 \in ReqIds :
        ( /\ After(r1, r2)
          /\ now < IdemTTL
          /\ Acceptable(req[r1].in) /\ Acceptable(req[r2].in)
          /\ req[r1].in.subject = req[r2].in.subject
          /\ req[r1].in.idempotencyKey # ""
          /\ req[r1].in.idempotencyKey = req[r2].in.idempotencyKey
          /\ RequestHash(req[r1].in) # RequestHash(req[r2].in)
          /\ req[r1].resp.status = StatusOK )
        => /\ req[r2].resp.status = StatusConflict
           /\ req[r2].resp.code = "CDV_CONFLICT"

\* C3: in every interleaving of concurrent POSTs with the same idempotency
\* key and the same body, at most one record is persisted and at most one
\* record-created event is published.
C3_AtMostOncePerKey ==
    \A r1, r2 \in ReqIds :
        ( /\ r1 # r2
          /\ req[r1].pc # "idle" /\ req[r2].pc # "idle"
          /\ r1 \notin req[r2].prior /\ r2 \notin req[r1].prior
          /\ now < IdemTTL
          /\ req[r1].in = req[r2].in
          /\ req[r1].in.idempotencyKey # "" )
        => /\ Cardinality(RecordsOf({r1, r2})) <= 1
           /\ Cardinality(EventsOf({r1, r2})) <= 1

Steps(r) == req'[r] # req[r]

\* C4 (as amended): a POST that carries collection, did and record and whose
\* did differs from the authenticated subject is answered 403 DID_MISMATCH,
\* and none of its steps creates an account, persists a record, stores an
\* idempotency entry or publishes an event.
C4_DidMismatchRejected ==
    [][\A r \in ReqIds :
         ( /\ Steps(r)
           /\ req'[r].in.wellFormed
           /\ req'[r].in.collection # "" /\ req'[r].in.did # "" /\ req'[r].in.hasRecord
           /\ req'[r].in.did # req'[r].in.subject )
         => /\ UNCHANGED <<accounts, records, idempotency, events>>
            /\ req'[r].pc \in {"start", "done"}
            /\ req'[r].pc = "done" =>
                  /\ req'[r].resp.status = StatusForbidden
                  /\ req'[r].resp.code = "CDV_DID_MISMATCH"]_vars

C4_Witness ==
    \E r \in ReqIds :
        /\ Done(r)
        /\ req[r].in.wellFormed
        /\ req[r].in.collection # "" /\ req[r].in.did # "" /\ req[r].in.hasRecord
        /\ req[r].in.did # req[r].in.subject
        /\ req[r].resp.status = StatusForbidden
        /\ req[r].resp.code = "CDV_DID_MISMATCH"

\* C4 as stated: every POST whose did differs from the subject is answered
\* 403 DID_MISMATCH (and has no side effects).
C4_AnyMismatchIs403 ==
    \A r \in ReqIds :
        (Done(r) /\ req[r].in.wellFormed /\ req[r].in.did # req[r].in.subject)
        => /\ req[r].resp.status = StatusForbidden
           /\ req[r].resp.code = "CDV_DID_MISMATCH"

\* the record of the request violates the JSON schema of its collection
ViolatesSchema(in) ==
    /\ in.hasRecord
    /\ in.collection \in SupportedCollections
    /\ ~SchemaAccepts(in.collection, in.record)

\* C5: every POST that passes the checks made before validation (decodable
\* body, required fields, did equal to the subject) and whose record violates
\* the schema of its collection is answered 400 SCHEMA_REJECT and leaves
\* accounts, records, idempotency entries and events as they were.
C5_SchemaViolationRejected ==
    [][\A r \in ReqIds :
         ( /\ Steps(r)
           /\ ViolatesSchema(req'[r].in)
           /\ req'[r].in.wellFormed
           /\ req'[r].in.collection # "" /\ req'[r].in.did # ""
           /\ req'[r].in.did = req'[r].in.subject )
         => /\ UNCHANGED <<accounts, records, idempotency, events>>
            /\ req'[r].pc = "done"
               => /\ req'[r].resp.status = StatusBadRequest
                  /\ req'[r].resp.code = "CDV_SCHEMA_REJECT"]_vars

\* ------------------------------------------------------------------------
\* Properties of listRecords
\* ------------------------------------------------------------------------
\* the stored records of the DID and collection of a query
Matching(p) ==
    {x \in SeqToSet(records) :
        x.did = p.did /\ (p.collection = "" \/ x.collection = p.collection)}

\* a session that began without a cursor and without time filters
PlainSession ==
    /\ list.p.did # ""
    /\ list.p.cursor.kind = ""
    /\ list.p.since = ZeroTime /\ list.p.until = ZeroTime

\* C6: over a dataset that does not change, for a limit in 1..100, paging
\* until no nextCursor is returned enumerates every record of the (did,
\* collection) exactly once, by indexed_at descending then rkey ascending.
C6_PagingEnumeratesAll ==
    ( /\ list.pc = "exhausted"
      /\ PlainSession
      /\ list.p.collection # ""
      /\ list.p.limit.given /\ list.p.limit.v \in 1..MaxListLimit
      /\ Len(records) = list.startLen )
    => /\ Len(list.seen) = Cardinality(Matching(list.p))
       /\ SeqToSet(list.seen) = Matching(list.p)
       /\ \A i, j \in 1..Len(list.seen) :
             i < j => SortsBefore(list.seen[i], list.seen[j])

\* C7: a page carries nextCursor exactly when a matching record follows the
\* last record of the page; the cursor holds the (indexed_at, rkey) of that
\* record; an empty page carries none.
C7_NextCursorIffMore ==
    [][( /\ list'.pages = list.pages + 1
         /\ PlainSession
         /\ list'.last.status = StatusOK )
       => LET page == list'.last
              n == Len(page.records)
          IN  IF n = 0 THEN page.nextCursor.kind = ""
              ELSE /\ page.nextCursor.kind # ""
                      <=> \E x \in Matching(list.p) \ SeqToSet(list'.seen) :
                             ~SortsBefore(x, page.records[n])
                   /\ page.nextCursor.kind # ""
                      => /\ page.nextCursor.t = page.records[n].indexedAt
                         /\ page.nextCursor.k = page.records[n].rkey]_vars

\* C8: a request whose cursor does not decode (not base64url, or base64url
\* of something other than the cursor object) is answered 400
\* CURSOR_INVALID on either store.
C8_BadCursorRejected ==
    ( /\ list.pages = 1
      /\ list.p.cursor.kind \in {"badBase64", "notObject", "emptyObject"} )
    => /\ list.last.status = StatusBadRequest
       /\ list.last.code = "CDV_CURSOR_INVALID"

\* C9: once a POST has been answered 200 with a uri, a client that then pages
\* through listRecords?did= to the end is given a page with that uri,
\* whatever other records are created meanwhile.
C9_ReadYourWrites ==
    \A r \in ReqIds :
        ( /\ list.pc = "exhausted"
          /\ PlainSession
          /\ list.p.collection = ""
          /\ r \in list.prior
          /\ req[r].resp.status = StatusOK
          /\ req[r].in.did = list.p.did )
        => \E i \in 1..Len(list.seen) :
              list.seen[i].uri = req[r].resp.body.json.uri

\* ------------------------------------------------------------------------
\* Properties of the media two-phase commit
\* ------------------------------------------------------------------------
\* C10: with an object store configured, uploadInit, the upload of bytes B to
\* the upload URL and finalize with sha256 = SHA-256(B) end in 200, and the
\* stored asset has that checksum and the size of B.
C10_FinalizeStoresChecksumAndSize ==
    ( /\ up.pc = "done"
      /\ Configured(s3)
      /\ up.put
      /\ up.fin.assetId = up.assetID
      /\ up.fin.subject = up.in.did
      /\ up.fin.sha256 = Sha256(up.content) )
    => /\ up.resp.status = StatusOK
       /\ \E a \in assets :
             /\ a.assetId = up.assetID
             /\ a.checksum = Sha256(up.content)
             /\ a.size = Len(up.content)

\* C11: with an object store configured and an object uploaded, a finalize
\* whose sha256 is not the SHA-256 of the uploaded bytes is answered 400
\* MEDIA_CHECKSUM, the stored asset keeps checksum, size, uri and media type
\* of uploadInit, and no media event is published.
C11_ChecksumMismatchRejected ==
    ( /\ up.pc = "done"
      /\ Configured(s3)
      /\ up.put
      /\ up.fin.assetId = up.assetID
      /\ up.fin.subject = up.in.did
      /\ up.fin.sha256 # NoSha
      /\ up.fin.sha256 # Sha256(up.content) )
    => /\ up.resp.status = StatusBadRequest
       /\ up.resp.code = "CDV_MEDIA_CHECKSUM"
       /\ \E a \in assets :
             /\ a.assetId = up.assetID
             /\ a.checksum = up.in.sha256
             /\ a.size = up.in.size
             /\ a.uri = AtMediaURI(up.in.did, up.assetID)
             /\ a.mimeType = up.in.mimeType
       /\ mediaEvents = <<>>

\* ------------------------------------------------------------------------
\* Properties of event publishing
\* ------------------------------------------------------------------------
\* the positions of the envelopes a stream holds for a record, for an asset
RecordEnvelopes(uri) ==
    {i \in 1..Len(pub.RA_RECORDS) : pub.RA_RECORDS[i].uri = uri}
MediaEnvelopes(assetID) ==
    {i \in 1..Len(pub.RA_MEDIA) : pub.RA_MEDIA[i].assetId = assetID}

\* a publish with this correlation id was acknowledged on the stream within
\* the last 5 minutes
Collapsed(stream, corr) ==
    \E e \in pub.acked : e.stream = stream /\ e.corr = corr /\ pub.clock - e.t < 5

\* C12: with a broker configured, a POST /v1/repo/record answered 200 by
\* creating a record leaves exactly one envelope for the record on
\* RA_RECORDS, and a finalize answered 200 exactly one for the asset on
\* RA_MEDIA, unless the publish was collapsed by deduplication.
C12_ExactlyOneEnvelope ==
    /\ \A r \in ReqIds :
          ( /\ pub.connected
            /\ Done(r)
            /\ req[r].resp.status = StatusOK
            /\ ~req[r].resp.replay )
          => \/ Cardinality(RecordEnvelopes(req[r].rec.uri)) = 1
             \/ /\ RecordEnvelopes(req[r].rec.uri) = {}
                /\ Collapsed("RA_RECORDS", r)
    /\ ( /\ pub.connected
         /\ up.pc = "done"
         /\ up.resp.status = StatusOK )
       => \/ Cardinality(MediaEnvelopes(up.assetID)) = 1
          \/ /\ MediaEnvelopes(up.assetID) = {}
             /\ Collapsed("RA_MEDIA", 1)

\* the publish call of request r returned an error: its envelope was handed
\* to js.Publish and no stream holds it
PublishFailed(r) ==
    /\ req[r].pc \in {"storeIdem", "done"}
    /\ req[r].rec # NoRecord
    /\ RecordEnvelopes(req[r].rec.uri) = {}
    /\ \E i \in 1..Len(events) : events[i].uri = req[r].rec.uri

\* C13: a request whose record-created or media-finalized publish returned
\* an error is still answered 200, and its record or finalized asset stays
\* persisted.
C13_PublishFailureTolerated ==
    /\ \A r \in ReqIds :
          (pub.connected /\ Done(r) /\ PublishFailed(r))
          => /\ req[r].resp.status = StatusOK
             /\ \E i \in 1..Len(records) : records[i] = req[r].rec
    /\ ( /\ pub.connected
         /\ up.pc = "done"
         /\ mediaEvents # <<>>
         /\ MediaEnvelopes(up.assetID) = {} )
       => /\ up.resp.status = StatusOK
          /\ \E a \in assets : a.assetId = up.assetID /\ a.checksum = up.fin.sha256

\* C14: a publish whose correlation id was acknowledged on the same stream
\* less than 5 minutes before is dropped: it returns nil and hands nothing to
\* the broker; when the last such publish lies 5 minutes or more back, the
\* publish is handed to the broker.
C14_DedupWithinFiveMinutes ==
    [][ (pub.connected /\ pub'.n = pub.n + 1)
        => LET l == pub'.last
               prior == {e \in pub.acked : e.stream = l.stream /\ e.corr = l.corr}
           IN  /\ (\E e \in prior : pub.clock - e.t < 5)
                  => /\ l.result = "dropped"
                     /\ UNCHANGED <<events, mediaEvents>>
               /\ (prior # {} /\ \A e \in prior : pub.clock - e.t >= 5)
                  => /\ l.result \in {"sent", "error"}
                     /\ Len(events') + Len(mediaEvents')
                           = Len(events) + Len(mediaEvents) + 1 ]_vars

\* ------------------------------------------------------------------------
\* Properties of identifier minting
\* ------------------------------------------------------------------------
\* C15: of two records created in the same millisecond, the one created later
\* has the strictly greater rkey.
C15_RKeysIncreaseWithinMillisecond ==
    \A i, j \in 1..Len(records) :
        (i < j /\ records[i].rkey[1] = records[j].rkey[1])
        => RKeyLess(records[i].rkey, records[j].rkey)
\* ------------------------------------------------------------------------
\* Properties of token verification
\* ------------------------------------------------------------------------
\* the exchanges whose fetch of the key set is in flight
Fetching == {r \in ReqIds : auth.x[r].pc = "fetching"}

\* exchange r takes the write lock of the cache in this step
TakesLock(r) ==
    auth.x[r].pc = "wantLock" /\ auth'.x[r].pc # "wantLock"

\* C16: when several verifications find the cache empty or expired, at most
\* one fetch is in flight at any time, and a verification that was waiting
\* for the lock while another fetched successfully uses the cached result of
\* that fetch: it begins no fetch of its own.
C16_SingleFetchInFlight ==
    /\ [](Cardinality(Fetching) <= 1)
    /\ [][\A r \in ReqIds :
            (TakesLock(r) /\ Fresh(auth))
            => (auth'.x[r].pc = "done" /\ ~auth'.x[r].fetched
                /\ auth'.fetches = auth.fetches)]_vars

\* both verifications found the cache stale, one fetched, the other was
\* answered from the result of that fetch
C16_Witness ==
    \E r, q \in ReqIds :
        /\ r # q
        /\ auth.x[r].stale /\ auth.x[q].stale
        /\ auth.x[q].fetched /\ auth.x[q].entered
        /\ auth.x[r].pc = "done" /\ ~auth.x[r].fetched /\ auth.x[r].entered
        /\ auth.fetches = 1

\* the middleware answers exchange r or calls its handler in this step
Completes(r) ==
    auth.x[r].pc # "done" /\ auth'.x[r].pc = "done"

\* a token the issuer made: signed with the key its header names, for this
\* service, unexpired, with a subject
WellSigned(t) ==
    /\ t.kind = "jwt" /\ t.kid # "" /\ t.signedBy = t.kid
    /\ t.iss = JwtIssuer /\ t.aud = JwtAudience /\ ~t.expired /\ t.sub # ""

\* C17: a token whose kid is not in the cached key set makes the verifier
\* refresh the key set before deciding: when the issuer publishes the key
\* and the JWKS URL answers, the token is accepted although the cached set
\* has not expired.
C17_UnknownKidRefreshes ==
    [][\A r \in ReqIds :
        (/\ Completes(r)
         /\ ~auth.testMode
         /\ Fresh(auth)
         /\ WellSigned(auth.x[r].h.token)
         /\ auth.x[r].h.token.kid \notin auth.jwks
         /\ auth.x[r].h.token.kid \in auth.keys
         /\ auth.reachable)
        => auth'.x[r].entered]_vars

\* C18: when the fetch of the key set fails and a key set was fetched
\* before, verification goes on against that set: a token signed with one
\* of its keys is accepted.
C18_StaleKeysOnFetchFailure ==
    [][\A r \in ReqIds :
        (/\ Completes(r)
         /\ auth.x[r].pc = "fetching"
         /\ ~auth.reachable
         /\ auth.loaded
         /\ WellSigned(auth.x[r].h.token)
         /\ auth.x[r].h.token.kid \in auth.jwks)
        => auth'.x[r].entered]_vars

\* ------------------------------------------------------------------------
\* Properties of the middleware
\* ------------------------------------------------------------------------
\* the request is one that must be authenticated: the record route or a
\* media route, called with the method it is registered with
Authenticated(h) ==
    /\ h.path \in {"/v1/repo/record", "/v1/media/uploadInit", "/v1/media/finalize",
                   "/v1/media/asset-1/meta"}
    /\ h.method = RegisteredMethod(h.path)

\* C19: the test-mode verifier does not look at the signature but enforces
\* iss and aud: a bearer token whose iss or aud differs from the configured
\* one is answered 401 and the handler is not run, whatever its signature; a
\* token with the configured iss and aud and a subject is accepted even when
\* its signature is forged.
C19_TestModeEnforcesIssAud ==
    \A r \in ReqIds :
        LET x == auth.x[r] IN
        (auth.testMode /\ x.pc = "done" /\ Authenticated(x.h) /\ x.h.scheme = "Bearer")
        => /\ (x.h.token.iss # JwtIssuer \/ x.h.token.aud # JwtAudience)
              => (x.status = StatusUnauthorized /\ ~x.entered /\ req[r] = IdleReq)
           /\ (x.h.token.iss = JwtIssuer /\ x.h.token.aud = JwtAudience
               /\ x.h.token.sub # "")
              => x.entered

\* test mode, POST /v1/repo/record with a token of another issuer: 401
C19_Witness ==
    \E r \in ReqIds :
        /\ auth.testMode
        /\ auth.x[r].pc = "done"
        /\ auth.x[r].h.path = "/v1/repo/record"
        /\ auth.x[r].h.method = "POST"
        /\ auth.x[r].h.scheme = "Bearer"
        /\ auth.x[r].h.token.iss # JwtIssuer
        /\ auth.x[r].status = StatusUnauthorized
        /\ auth.x[r].code = "CDV_JWT_INVALID"

\* the request carries a bearer token the configured verifier accepts
TokenAccepted(h) ==
    /\ h.scheme = "Bearer"
    /\ IF auth.testMode
       THEN /\ h.token.kind = "jwt" /\ h.token.sub # ""
            /\ h.token.iss = JwtIssuer /\ h.token.aud = JwtAudience
       ELSE WellSigned(h.token)

\* C20: a request to POST /v1/repo/record, POST /v1/media/uploadInit,
\* POST /v1/media/finalize or GET /v1/media/{assetId}/meta that lacks a bearer
\* token accepted by the verifier is answered 401 and does not reach its
\* handler; the step that rejects it changes no store and publishes no
\* event. GET /v1/repo/listRecords reaches its handler without a token.
C20_ProtectedRoutesNeedToken ==
    /\ [](\A r \in ReqIds :
            LET x == auth.x[r] IN
            (x.pc = "done" /\ RegisteredMethod(x.h.path) = x.h.method)
            => /\ (Authenticated(x.h) /\ ~TokenAccepted(x.h))
                  => (x.status = StatusUnauthorized /\ ~x.entered /\ req[r] = IdleReq)
               /\ (x.h.path = "/v1/repo/listRecords") => x.entered)
    /\ [][\A r \in ReqIds :
            (Completes(r) /\ ~auth'.x[r].entered)
            => UNCHANGED <<req, accounts, records, idempotency, events, assets,
                           objects, mediaEvents, pub>>]_vars

\* POST /v1/repo/record without Authorization header: 401 CDV_AUTHN, while the
\* other exchange listed records without a token
C20_Witness ==
    \E r, q \in ReqIds :
        /\ auth.x[r].pc = "done"
        /\ auth.x[r].h = HttpRequestOf("POST", "/v1/repo/record", "", NoToken)
        /\ auth.x[r].status = StatusUnauthorized
        /\ auth.x[r].code = "CDV_AUTHN"
        /\ req[r] = IdleReq
        /\ auth.x[q].pc = "done"
        /\ auth.x[q].h = HttpRequestOf("GET", "/v1/repo/listRecords", "", NoToken)
        /\ auth.x[q].entered

\* C20 as stated: every POST and every GET under /v1/media/ without an
\* accepted bearer token is answered 401 and does not reach its handler.
C20_AnyUnauthenticatedIs401 ==
    \A r \in ReqIds :
        LET x == auth.x[r] IN
        (/\ x.pc = "done"
         /\ (x.h.method = "POST" \/ (x.h.method = "GET" /\ UnderMedia(x.h.path)))
         /\ ~TokenAccepted(x.h))
        => (x.status = StatusUnauthorized /\ ~x.entered)

\* C21: every response of a /v1 route carries an X-Correlation-Id header:
\* the one of the request, or a generated one when the request has none;
\* also a response that rejects a wrong method and a replayed response.
C21_CorrelationIdEchoed ==
    \A r \in ReqIds :
        LET x == auth.x[r] IN
        (x.pc = "done" /\ RegisteredMethod(x.h.path) # "")
        => /\ x.xcorr # 0
           /\ x.h.correlationId # 0 => x.xcorr = x.h.correlationId

\* ------------------------------------------------------------------------
\* Properties of the stores under concurrent writes
\* ------------------------------------------------------------------------
\* C22: two first-time writes for one DID both see GetAccount return
\* NotFound; the one whose CreateAccount returns CONFLICT ignores the
\* conflict and goes on to create its record, and one account exists.
C22_AccountRaceIgnored ==
    [][\A r \in ReqIds :
        (/\ req[r].pc = "createAccount"
         /\ req'[r].pc # "createAccount"
         /\ GetAccount(accounts, req[r].in.did))
        => (req'[r].pc = "createRecord" /\ accounts' = accounts)]_vars

\* the rows of a store respect the unique constraints of the records table
UniqueRecords(recs) ==
    \A i, j \in 1..Len(recs) :
        i # j => /\ recs[i].uri # recs[j].uri
                 /\ <<recs[i].did, recs[i].collection, recs[i].rkey>>
                    # <<recs[j].did, recs[j].collection, recs[j].rkey>>

\* rec has the uri or the (did, collection, rkey) of a stored record
BreaksUniqueness(recs, rec) ==
    \E i \in 1..Len(recs) :
        \/ recs[i].uri = rec.uri
        \/ <<recs[i].did, recs[i].collection, recs[i].rkey>>
           = <<rec.did, rec.collection, rec.rkey>>

\* C23: in either store, after any sequence of Store calls, no two records
\* share a uri or a (did, collection, rkey) triple and every record belongs
\* to an existing account; a CreateRecord that would break uniqueness
\* returns CONFLICT and leaves the store unchanged.
C23_RecordsUnique ==
    /\ [](\A be \in Backends :
            /\ UniqueRecords(st[be].records)
            /\ \A i \in 1..Len(st[be].records) :
                  st[be].records[i].did \in st[be].accounts)
    /\ [][\A rec \in StoreRecords, be \in Backends :
            (/\ StoreCreateRecord(rec)
             /\ rec.did \in st[be].accounts
             /\ BreaksUniqueness(st[be].records, rec))
            => (st'.last[be] = "conflict" /\ st'[be] = st[be])]_vars

\* ------------------------------------------------------------------------
\* Properties of the media path
\* ------------------------------------------------------------------------
\* C24: a media asset is mutated exactly once: once a successful finalize
\* has installed checksum and size, the stored asset keeps every field,
\* whatever requests follow, a further finalize with another sha256 included.
C24_AssetMutatedOnce ==
    up.installed # NoAsset => up.installed \in assets

\* ------------------------------------------------------------------------
\* Properties of the idempotency store
\* ------------------------------------------------------------------------
\* C25: in every reachable state of the idempotency store a key_hash has at
\* most one request_hash, also when StoreIdempotent calls for one key_hash
\* with different request hashes overlap; a StoreIdempotent whose key_hash is
\* stored with another request_hash returns CONFLICT and leaves the entry as
\* it was.
C25_OneRequestHashPerKey ==
    /\ [](\A be \in Backends :
            \A x, y \in st[be].idempotency :
                x.keyHash = y.keyHash => x.requestHash = y.requestHash)
    /\ [][\A c \in ReqIds :
            (/\ StoreIdemWrite(c)
             /\ \E x \in st.postgres.idempotency :
                   x.keyHash = KeyHash("k1") /\ x.requestHash # st.call[c].requestHash)
            => (/\ st'.last.postgres = "conflict"
                /\ st'.postgres.idempotency = st.postgres.idempotency)]_vars

\* ------------------------------------------------------------------------
\* Properties of the two stores side by side
\* ------------------------------------------------------------------------
\* what a caller sees of the results ListRecords may return: the page, the
\* position its cursor stands for, whether the call failed
PageView(results) ==
    {[records |-> x.records, t |-> x.nextCursor.t, k |-> x.nextCursor.k,
      failed |-> (x.err # <<>> \/ x.panic)] : x \in results}

\* C26: the in-memory and the relational store are interchangeable: given
\* the same sequence of Store calls they return the same results: the same
\* errors of CreateAccount, CreateRecord and StoreIdempotent, the same
\* ListRecords pages and cursor positions, the same hit or miss of
\* GetIdempotent.
C26_StoresInterchangeable ==
    IF st.last.op = "ListRecords"
    THEN PageView(st.last.memory) = PageView(st.last.postgres)
    ELSE st.last.memory = st.last.postgres


\* ------------------------------------------------------------------------
\* Properties of schema version resolution
\* ------------------------------------------------------------------------
ResolvesDeprecated(collection) ==
    LET res == Resolve(cfg, collection)
    IN  res.ok /\ res.tag = DeprecatedTag

\* C27: when the resolved schema version of a collection is tagged
\* deprecated and reject_deprecated is true, a record create fails with
\* SCHEMA_REJECT and persists nothing; when it is false the record is stored
\* with the untagged version.  Under a true setting no request for such a
\* collection gets past version resolution and no record of it is stored;
\* under a false setting every stored record of it carries the untagged
\* version.
C27_DeprecatedSchemaRejected ==
    /\ cfg.rejectDeprecatedSchemas =>
          /\ \A r \in ReqIds :
                ResolvesDeprecated(req[r].in.collection) =>
                   /\ req[r].pc \in {"idle", "start", "done"}
                   /\ (req[r].pc = "done" => req[r].resp.status = StatusBadRequest)
          /\ \A i \in 1..Len(records) : ~ResolvesDeprecated(records[i].collection)
    /\ ~cfg.rejectDeprecatedSchemas =>
          \A i \in 1..Len(records) :
             ResolvesDeprecated(records[i].collection) =>
                records[i].schemaVersion = Resolve(cfg, records[i].collection).version


\* ------------------------------------------------------------------------
\* Properties of finalize against the object store
\* ------------------------------------------------------------------------
\* the finalize request passed the checks made before verification
ReachedVerification ==
    /\ up.pc = "done"
    /\ Configured(s3)
    /\ up.fin.assetId = up.assetID
    /\ up.fin.sha256 # NoSha
    /\ up.fin.subject = up.in.did

\* C28: a finalize for an asset whose object is missing from the object
\* store is answered MEDIA_CHECKSUM, not NOT_FOUND and not INTERNAL, the
\* store itself serving the requests of the service.
C28_MissingObjectIsChecksumFailure ==
    (ReachedVerification /\ Served(s3, MediaClient(s3)) /\ objects = {})
        => up.resp.code = "CDV_MEDIA_CHECKSUM"


\* ------------------------------------------------------------------------
\* Properties of uploadInit validation
\* ------------------------------------------------------------------------
OversizedOrDisallowed(in) ==
    in.size > MaxMediaSize \/ in.mimeType \notin AllowedMimeTypes

S3URI(bucket, objectKey) == <<"s3:", "", bucket>> \o objectKey

\* C30: every asset created by uploadInit is stored with the uri
\* s3://<bucket>/<objectKey>, objectKey = <env>/<did>/<assetId>[/<filename>],
\* and the object key finalize verifies for the asset is the key uploadInit
\* presigned the upload URL for.
C30_StoredUriNamesObjectKey ==
    /\ \A asset \in assets :
          asset.uri = S3URI(s3.bucket,
                            ObjectKey(asset.did, asset.assetId, up.in.filename))
    /\ (up.pc = "verify" /\ up.url.presigned) =>
          TrimPrefix(up.asset.uri, s3.bucket) = up.url.key


\* ------------------------------------------------------------------------
\* Properties of publication after commit
\* ------------------------------------------------------------------------
RecordStored(envelope) ==
    \E i \in 1..Len(records) :
        records[i].uri = envelope.uri /\ records[i].cid = envelope.cid

FinalizationStored(envelope) ==
    \E asset \in assets :
        /\ asset.assetId = envelope.assetId
        /\ asset.checksum = envelope.checksum
        /\ asset.size = envelope.size

MatchingAtStart ==
    {records[i] : i \in {j \in 1..list.startLen :
                            /\ records[j].did = list.p.did
                            /\ (list.p.collection # "" =>
                                   records[j].collection = list.p.collection)}}

\* C32: cursor pagination stays stable under concurrent writes: while a
\* client pages with the returned cursors and other requests insert records
\* for the same DID between the page requests, no record is returned on
\* more than one page, and every record that existed before the first page
\* request has been returned exactly once when the pages are exhausted.
C32_PagingStableUnderWrites ==
    PlainSession =>
        /\ \A i, j \in 1..Len(list.seen) : i < j => list.seen[i] # list.seen[j]
        /\ list.pc = "exhausted" =>
              \A x \in MatchingAtStart : \E i \in 1..Len(list.seen) : list.seen[i] = x


\* ------------------------------------------------------------------------
\* Properties of the dedup maps under concurrent publishes
\* ------------------------------------------------------------------------
\* call c has handed its envelope to the broker
HandedOver(c) == pub.calls[c].pc \in {"update", "done"} /\ pub.calls[c].result # "dropped"

\* C33: for every interleaving of concurrent publishes on the same stream
\* that carry the same correlation id within the dedup window, at most one
\* envelope is sent to the broker.
C33_OneEnvelopePerCorrelationId ==
    \A c, d \in ReqIds :
        ( /\ c # d
          /\ HandedOver(c) /\ HandedOver(d)
          /\ pub.calls[c].stream = pub.calls[d].stream
          /\ pub.calls[c].ctx.keyType = "event.ContextKey"
          /\ pub.calls[d].ctx.keyType = "event.ContextKey"
          /\ pub.calls[c].ctx.correlationId = pub.calls[d].ctx.correlationId )
        => \/ pub.calls[c].sentAt - pub.calls[d].sentAt >= DedupWindow(pub.build)
           \/ pub.calls[d].sentAt - pub.calls[c].sentAt >= DedupWindow(pub.build)


\* ------------------------------------------------------------------------
\* Properties of the locking of the in-memory store
\* ------------------------------------------------------------------------
\* the lock each operation of the in-memory store takes on m.mu and holds
\* until it returns
MemoryLock(op) ==
    IF op \in {"CreateAccount", "CreateRecord", "CreateMediaAsset",
               "UpdateMediaAsset", "StoreIdempotentResponse"}
    THEN "Lock"
    ELSE IF op \in {"GetAccount", "ListRecords", "GetRecordByURI", "GetMediaAsset",
                    "GetIdempotentResponse"}
    THEN "RLock"
    ELSE ""

\* C34: in the in-memory store every mutation of store state happens while
\* the exclusive lock is held: a step that changes the state of the store
\* is the step of an operation that took m.mu.Lock, never of one that took
\* only m.mu.RLock.
C34_MutationsUnderExclusiveLock ==
    [][st'.memory # st.memory => MemoryLock(st'.last.op) = "Lock"]_vars


\* ------------------------------------------------------------------------
\* Properties of the end of paging
\* ------------------------------------------------------------------------
\* a session about to send its first request, without a cursor, with a limit
\* in 1..100 and no time filter, every write answered: the dataset is frozen
FrozenSessionStarts ==
    /\ list.pc = "request"
    /\ list.pages = 0
    /\ PlainSession
    /\ list.p.limit.given /\ list.p.limit.v \in 1..MaxListLimit
    /\ \A r \in ReqIds : req[r].pc = "done"

\* C35: pagination terminates: over a frozen dataset, for any limit and
\* collection filter, a client that keeps calling ListRecords with the
\* nextCursor it was given reaches a page that carries no nextCursor.
C35_PagingTerminates == FrozenSessionStarts ~> (list.pc # "request")


\* ------------------------------------------------------------------------
\* Properties of idempotency across subjects
\* ------------------------------------------------------------------------
\* C36: a cached idempotent response is replayed only to a request whose
\* authenticated DID is the DID of the request that stored it: the uri of a
\* replayed response lies in the namespace of the subject it is given to.
C36_ReplayOnlyToOwner ==
    \A r \in ReqIds :
        (req[r].pc = "done" /\ req[r].resp.replay)
            => req[r].resp.body.json.uri.did = req[r].in.subject


\* ------------------------------------------------------------------------
\* Properties of error responses of the write path
\* ------------------------------------------------------------------------
\* the record request r stored, if any
Persisted(r) == {i \in 1..Len(records) : records[i] = req[r].rec}

\* C37: whenever POST /v1/repo/record answers with an error status, that
\* request has persisted no record and published no event; in particular a
\* 409 answered because StoreIdempotentResponse reported a conflict leaves
\* no record behind.
C37_ErrorsLeaveNothing ==
    \A r \in ReqIds :
        (req[r].pc = "done" /\ req[r].resp.status # StatusOK)
            => /\ Persisted(r) = {}
               /\ \A i \in 1..Len(events) : events[i].cid # r


\* ------------------------------------------------------------------------
\* Properties of expired idempotency entries
\* ------------------------------------------------------------------------
\* the entries of the key, all of them past their expiry
ExpiredEntries(key) == {x \in idempotency : x.keyHash = KeyHash(key)}

OnlyExpired(key) ==
    /\ key # ""
    /\ ExpiredEntries(key) # {}
    /\ \A x \in ExpiredEntries(key) : now > x.expiresAt

\* C38: an expired idempotency entry has no effect on later requests with
\* the same key: a request that finds only expired entries of its key is
\* neither answered by replay nor rejected with CONFLICT, whatever its body.
C38_ExpiredEntryHasNoEffect ==
    [][\A r \in ReqIds :
          (OnlyExpired(req[r].in.idempotencyKey) /\ req[r].pc # "done"
              /\ req'[r].pc = "done")
              => /\ ~req'[r].resp.replay
                 /\ req'[r].resp.status # StatusConflict]_vars


\* ------------------------------------------------------------------------
\* Properties of the values the in-memory store returns
\* ------------------------------------------------------------------------
\* C39: the stored media assets change only inside CreateMediaAsset and
\* UpdateMediaAsset: the asset GetMediaAsset returned is no alias of stored
\* state, so what handleFinalize assigns to its fields reaches the store,
\* where other requests read it, only with the call of UpdateMediaAsset.
C39_AssetsChangeOnlyInStoreCalls ==
    [][assets' # assets => up.pc \in {"initAsset", "assigned"}]_vars


\* ------------------------------------------------------------------------
\* Properties of the dedup table under failing publishes
\* ------------------------------------------------------------------------
\* the messages the streams of the broker hold
Accepted(p) == Len(p.RA_RECORDS) + Len(p.RA_MEDIA)

\* the dedup map a publish call on the given stream uses
DedupMapOf(p, stream) ==
    IF stream = "RA_RECORDS" THEN p.recordDedup ELSE p.mediaDedup

\* C40: the dedup table records a key only after the broker has accepted
\* the publish: whenever a dedup map changes a stream has stored the
\* message, and a publish that fails leaves both maps as they were, so a
\* retry with the same key passes the dedup probe and is sent to the broker.
C40_DedupOnlyAfterAccept ==
    [][/\ (pub'.recordDedup # pub.recordDedup \/ pub'.mediaDedup # pub.mediaDedup)
            => Accepted(pub') > Accepted(pub)
       /\ (pub'.n # pub.n /\ pub'.last.result = "error")
            => /\ pub'.recordDedup = pub.recordDedup
               /\ pub'.mediaDedup = pub.mediaDedup
               /\ ~shouldDedup(pub', pub'.last.key,
                               DedupMapOf(pub', pub'.last.stream))]_vars

\* a media publish failed, and the retry under the same correlation id was
\* accepted by the broker and only then recorded in the dedup map
C40_Witness ==
    /\ Len(mediaEvents) = 2
    /\ mediaEvents[1] = mediaEvents[2]
    /\ Len(pub.RA_MEDIA) = 1
    /\ pub.last.result = "sent"
    /\ pub.last.key = mediaEvents[2].correlationId
    /\ pub.mediaDedup = {[key |-> pub.last.key, t |-> pub.clock]}

================================================================
